---- MODULE Spec2Model ----
(***************************************************************************)
(* A model of spyderisk-python: the RiskVector aggregate                    *)
(* (spyderisk/risk_vector.py), the PREDICATE / OBJECT registry              *)
(* (spyderisk/core_model.py), and the construction, dispatch and entity     *)
(* caches of SystemModel / DomainModel (spyderisk/system_model.py,          *)
(* spyderisk/domain_model.py).                                              *)
(*                                                                         *)
(* A Python dict is a sequence of <<key, value>> pairs with distinct keys,  *)
(* in insertion order.  None is the string "None".                          *)
(***************************************************************************)
EXTENDS Integers, Sequences, FiniteSets, TLC

\* ------------------------------------------------------------------ bounds
MaxCount == 1
MaxRank == 1
\* entity objects constructed in one run
MaxObjects == 2
\* type triples per identifier of a system graph
MaxTypes == 2
\* named sub-graphs of a system model file
MaxContexts == 3
\* characters of an identifier whose text is split
MaxUriLen == 3
\* characters of a threat comment
MaxCommentLen == 5
\* entity objects alive when the sets located at an asset are collected
MaxSetObjects == 4

\* --------------------------------------------------------------- universes
None == "None"
LevelNames == {"Low", "Medium"}
\* an rdflib Literal, the key type of the dicts the callers pass
Literal(s) == <<"Literal", s>>
LevelKeys == {Literal(n) : n \in LevelNames}

VARIABLES
    rvs,        \* the RiskVector objects constructed so far, in order
    rvRes,      \* the outcome of the last RiskVector operation
    sysGraph,   \* the triples of the system graph, all named sub-graphs together
    domGraph,   \* the triples of the domain graph
    heap,       \* the entity objects constructed so far
    cache,      \* functools.cache of the factories: the objects they hold
    smOut,      \* the outcome of the last model operation
    ldOut,      \* the outcome of the last SystemModel construction
    calls       \* the factory call each thread is in: its position and its object

rvVars == <<rvs, rvRes>>
smVars == <<sysGraph, domGraph, heap, cache, smOut>>
vars == <<rvs, rvRes, sysGraph, domGraph, heap, cache, smOut, ldOut, calls>>

\* ------------------------------------------------------------ dict helpers
Keys(d) == {d[i][1] : i \in DOMAIN d}

IndexOf(d, k) == CHOOSE i \in DOMAIN d : d[i][1] = k

\* d.get(k, default)
Get(d, k, default) == IF k \in Keys(d) THEN d[IndexOf(d, k)][2] ELSE default

\* d[k] = v : an existing key keeps its position, a new key goes last
Put(d, k, v) ==
    IF k \in Keys(d)
    THEN [d EXCEPT ![IndexOf(d, k)] = <<k, v>>]
    ELSE Append(d, <<k, v>>)

\* d1 == d2 on dicts: same keys, same values, whatever the insertion order
DictEq(d1, d2) ==
    /\ Keys(d1) = Keys(d2)
    /\ \A k \in Keys(d1) : Get(d1, k, None) = Get(d2, k, None)

\* every dict over the keys K with values in V
RECURSIVE DictsOfLen(_, _, _)
DictsOfLen(K, V, n) ==
    IF n = 0 THEN {<<>>}
    ELSE {Append(d, <<k, v>>) :
            d \in {e \in DictsOfLen(K, V, n - 1) : TRUE},
            k \in K, v \in V}

Dicts(K, V) ==
    {d \in UNION {DictsOfLen(K, V, n) : n \in 0..Cardinality(K)} :
        Cardinality(Keys(d)) = Len(d)}

\* str(key) of a Literal key: its lexical form
Str(key) == key[2]

\* an optional dict argument: None, or a dict
NoneArg == [none |-> TRUE, dict |-> <<>>]
Given(d) == [none |-> FALSE, dict |-> d]

\* ------------------------------------------------------------- RiskVector
\* {str(key): value for key, value in a_dict.items()}
RECURSIVE normalise_from(_, _, _)
normalise_from(a_dict, i, acc) ==
    IF i > Len(a_dict) THEN acc
    ELSE normalise_from(a_dict, i + 1, Put(acc, Str(a_dict[i][1]), a_dict[i][2]))

normalise_dict(a_dict) == normalise_from(a_dict, 1, <<>>)

\* list.insert of item behind every element that sorts before or with it
RECURSIVE InsertStable(_, _, _)
InsertStable(sorted, item, reverse) ==
    IF sorted = <<>> THEN <<item>>
    ELSE LET last == sorted[Len(sorted)]
             before == IF reverse THEN last[2] >= item[2] ELSE last[2] <= item[2]
         IN IF before THEN Append(sorted, item)
            ELSE Append(InsertStable(SubSeq(sorted, 1, Len(sorted) - 1), item, reverse), last)

\* sorted(items, key=lambda item: item[1], reverse=reverse), a stable sort
RECURSIVE SortedFrom(_, _, _, _)
SortedFrom(items, i, reverse, acc) ==
    IF i > Len(items) THEN acc
    ELSE SortedFrom(items, i + 1, reverse, InsertStable(acc, items[i], reverse))

SortedByValue(items, reverse) == SortedFrom(items, 1, reverse, <<>>)

sort_dict(a_dict) == SortedByValue(a_dict, TRUE)

\* RiskVector.__init__: the object it leaves behind, or the error it raises
RiskVector(risk_dict, risk_levels) ==
    LET rd == IF ~risk_dict.none THEN risk_dict.dict ELSE <<>>
        rl == IF ~risk_levels.none THEN risk_levels.dict ELSE <<>>
    IN [raised |-> None,
        risk_dict |-> normalise_dict(rd),
        risk_levels |-> normalise_dict(rl),
        sorted_levels |-> sort_dict(normalise_dict(rl))]

\* {**a, **b}
RECURSIVE MergeFrom(_, _, _)
MergeFrom(b, i, acc) ==
    IF i > Len(b) THEN acc
    ELSE MergeFrom(b, i + 1, Put(acc, b[i][1], b[i][2]))

Merge(a, b) == MergeFrom(b, 1, a)

\* the for loop of _compare from position i: the value returned and the
\* level at which the loop returned (None when it ran to the end)
RECURSIVE compare_scan(_, _, _, _, _)
compare_scan(self, other, operator, sorted_levels, i) ==
    IF i > Len(sorted_levels) THEN [value |-> FALSE, level |-> None]
    ELSE LET key == sorted_levels[i][1]
             self_value == Get(self.risk_dict, key, 0)
             other_value == Get(other.risk_dict, key, 0)
         IN IF operator = "gt" /\ self_value > other_value
            THEN [value |-> TRUE, level |-> key]
            ELSE IF operator = "lt" /\ self_value < other_value
            THEN [value |-> TRUE, level |-> key]
            ELSE compare_scan(self, other, operator, sorted_levels, i + 1)

merged_levels(self, other) == Merge(self.risk_levels, other.risk_levels)

\* _compare scanning from the most severe level down
compare_descending(self, other, operator) ==
    LET sorted_levels == SortedByValue(merged_levels(self, other), TRUE)
    IN compare_scan(self, other, operator, sorted_levels, 1)

compare(self, other, operator) ==
    LET sorted_levels == SortedByValue(merged_levels(self, other), FALSE)
    IN compare_scan(self, other, operator, sorted_levels, 1)

gt(self, other) == compare(self, other, "gt")

\* __lt__ passing the operator of __gt__
lt_as_gt(self, other) == compare(self, other, "gt")

lt(self, other) == compare(self, other, "lt")

\* __eq__ comparing the rank maps only
eq_ranks_only(self, other) == DictEq(self.risk_levels, other.risk_levels)

eq(self, other) ==
    DictEq(self.risk_dict, other.risk_dict) /\ DictEq(self.risk_levels, other.risk_levels)

\* overall_level skipping the levels whose count is zero
overall_level_nonzero(self) ==
    LET counted == SelectSeq(self.sorted_levels, LAMBDA level : Get(self.risk_dict, level[1], 0) > 0)
    IN IF counted = <<>> THEN None ELSE counted[1][1]

\* RiskVector.overall_level
overall_level(self) ==
    IF self.risk_levels = <<>> THEN None ELSE self.sorted_levels[1][1]

\* ------------------------------------------------- RiskVector: operations
\* the counts mappings passed in.  The counts are only ever read by key
\* (get, ==), never in iteration order, so one insertion order is drawn for
\* each set of keys; the ranks mappings are drawn in every order.
LevelOrder == <<Literal("Low"), Literal("Medium")>>

LevelPosition(key) == CHOOSE i \in DOMAIN LevelOrder : LevelOrder[i] = key

CountDicts ==
    {d \in Dicts(LevelKeys, 0..MaxCount) :
        \A i, j \in DOMAIN d : i < j => LevelPosition(d[i][1]) < LevelPosition(d[j][1])}

NoRes == [op |-> None]

\* rv = RiskVector(risk_dict, risk_levels)
NewRiskVector ==
    /\ Len(rvs) < 2
    /\ \E risk_dict \in {Given(d) : d \in CountDicts} \cup {NoneArg},
          risk_levels \in {Given(d) : d \in Dicts(LevelKeys, 0..MaxRank)} \cup {NoneArg} :
          LET rv == RiskVector(risk_dict, risk_levels)
          IN /\ rvs' = IF rv.raised = None THEN Append(rvs, rv) ELSE rvs
             /\ rvRes' = [op |-> "new", raised |-> rv.raised,
                          counts |-> risk_dict, ranks |-> risk_levels]

\* rvs[1] > rvs[2] and rvs[2] > rvs[1]
GreaterThan ==
    /\ Len(rvs) = 2
    /\ rvRes' = [op |-> "gt", ab |-> gt(rvs[1], rvs[2]), ba |-> gt(rvs[2], rvs[1])]
    /\ UNCHANGED rvs

\* rvs[1] < rvs[2] and rvs[2] < rvs[1]
LessThan ==
    /\ Len(rvs) = 2
    /\ rvRes' = [op |-> "lt", ab |-> lt(rvs[1], rvs[2]), ba |-> lt(rvs[2], rvs[1])]
    /\ UNCHANGED rvs

\* rvs[1] == rvs[2]
Equals ==
    /\ Len(rvs) = 2
    /\ rvRes' = [op |-> "eq", ab |-> eq(rvs[1], rvs[2]), ba |-> eq(rvs[2], rvs[1])]
    /\ UNCHANGED rvs

\* rvs[-1].overall_level
OverallLevel ==
    /\ Len(rvs) >= 1
    /\ rvRes' = [op |-> "overall_level", self |-> Len(rvs),
                 value |-> overall_level(rvs[Len(rvs)])]
    /\ UNCHANGED rvs

\* ================================================================ registry
\* core_model.PREDICATE: semantic name -> predicate identifier
PREDICATE ==
    [name \in {"type"} |-> "rdf#type"] @@
    [name \in {"comment"} |-> "rdfs#comment"] @@
    [name \in {"label"} |-> "rdfs#label"] @@
    [name \in {"sub_class_of"} |-> "rdfs#subClassOf"] @@
    [name \in {"affected_by"} |-> "core#affectedBy"] @@
    [name \in {"affects"} |-> "core#affects"] @@
    [name \in {"applies_to"} |-> "core#appliesTo"] @@
    [name \in {"blocks"} |-> "core#blocks"] @@
    [name \in {"causes_direct_misbehaviour"} |-> "core#causesDirectMisbehaviour"] @@
    [name \in {"causes_indirect_misbehaviour"} |-> "core#causesIndirectMisbehaviour"] @@
    [name \in {"causes_misbehaviour"} |-> "core#causesMisbehaviour"] @@
    [name \in {"causes_threat"} |-> "core#causesThreat"] @@
    [name \in {"has_asserted_level"} |-> "core#hasAssertedLevel"] @@
    [name \in {"has_asset"} |-> "core#hasAsset"] @@
    [name \in {"has_blocking_effect"} |-> "core#hasBlockingEffect"] @@
    [name \in {"has_control"} |-> "core#hasControl"] @@
    [name \in {"has_control_set"} |-> "core#hasControlSet"] @@
    [name \in {"has_entry_point"} |-> "core#hasEntryPoint"] @@
    [name \in {"has_id"} |-> "core#hasID"] @@
    [name \in {"has_impact_level"} |-> "core#hasImpactLevel"] @@
    [name \in {"has_inferred_level"} |-> "core#hasInferredLevel"] @@
    [name \in {"has_mandatory_control_set"} |-> "core#hasMandatoryCS"] @@
    [name \in {"has_misbehaviour"} |-> "core#hasMisbehaviour"] @@
    [name \in {"has_node"} |-> "core#hasNode"] @@
    [name \in {"has_prior"} |-> "core#hasPrior"] @@
    [name \in {"has_risk"} |-> "core#hasRisk"] @@
    [name \in {"has_secondary_effect_condition"} |-> "core#hasSecondaryEffectCondition"] @@
    [name \in {"has_twa"} |-> "core#hasTrustworthinessAttribute"] @@
    [name \in {"is_assertable"} |-> "core#isAssertable"] @@
    [name \in {"is_current_risk"} |-> "core#isCurrentRisk"] @@
    [name \in {"is_external_cause"} |-> "core#isExternalCause"] @@
    [name \in {"is_future_risk"} |-> "core#isFutureRisk"] @@
    [name \in {"is_initial_cause"} |-> "core#isInitialCause"] @@
    [name \in {"is_normal_op"} |-> "core#isNormalOp"] @@
    [name \in {"is_normal_op_effect"} |-> "core#isNormalOpEffect"] @@
    [name \in {"is_proposed"} |-> "core#isProposed"] @@
    [name \in {"is_root_cause"} |-> "core#isRootCause"] @@
    [name \in {"is_visible"} |-> "core#isVisible"] @@
    [name \in {"level_value"} |-> "core#levelValue"] @@
    [name \in {"located_at"} |-> "core#locatedAt"] @@
    [name \in {"meta_located_at"} |-> "core#metaLocatedAt"] @@
    [name \in {"mitigates"} |-> "core#mitigates"] @@
    [name \in {"parent"} |-> "core#parent"]

\* core_model.OBJECT: entity-kind name -> type identifier
OBJECT ==
    [name \in {"asset"} |-> "owl#Class"] @@
    [name \in {"control_set"} |-> "core#ControlSet"] @@
    [name \in {"control_strategy"} |-> "core#ControlStrategy"] @@
    [name \in {"misbehaviour_set"} |-> "core#MisbehaviourSet"] @@
    [name \in {"threat"} |-> "core#Threat"] @@
    [name \in {"trustworthiness_attribute_set"} |-> "core#TrustworthinessAttributeSet"] @@
    [name \in {"trustworthiness_level"} |-> "core#TrustworthinessLevel"] @@
    [name \in {"twaa_default_setting"} |-> "core#TWAADefaultSetting"]

\* rdflib's RDF.type and OWL.Ontology
RDF_type == "rdf#type"
OWL_Ontology == "owl#Ontology"

\* ============================================================= graph store
\* a graph is a set of <<subject, predicate, object>> triples
Subjects(g, p, o) == {t[1] : t \in {u \in g : u[2] = p /\ u[3] = o}}

Objects(g, s, p) == {t[3] : t \in {u \in g : u[1] = s /\ u[2] = p}}

\* next(iterator, None): any element the store may enumerate first
NextOf(S) == IF S = {} THEN {None} ELSE S

\* Graph.value(subject, predicate): None for an absent subject or no match
Values(g, s, p) == IF s = None THEN {None} ELSE NextOf(Objects(g, s, p))

\* every order in which the store may enumerate the set S
RECURSIVE Orders(_)
Orders(S) ==
    IF S = {} THEN {<<>>}
    ELSE UNION {{<<x>> \o rest : rest \in Orders(S \ {x})} : x \in S}

\* the outcome of a call: a value returned, or an exception raised
Returned(v) == [raised |-> None, arg |-> None, value |-> v]
Raised(error, a) == [raised |-> error, arg |-> a, value |-> None]

\* ========================================================= model universes
SysIds == {"system#A", "system#B"}
DomIds == {"domain#Router", "domain#Device"}
SysOntology == "system#ontology"
DomOntology == "domain#ontology"
Versions == {"6a6", "6a7"}

\* the type identifiers a system graph gives its identifiers
CoreTypes ==
    {"core#MisbehaviourSet", "core#Threat", "core#CardinalityConstraint",
     "core#ControlStrategy", "core#TrustworthinessAttributeSet", "core#ControlSet"}
TypeObjects == CoreTypes \cup DomIds

\* the named sub-graphs of a system model file, as path segments
ContextIds ==
    {<<"system">>, <<"system", "inf">>, <<"system", "ui">>, <<"other">>, <<"other", "inf">>}

\* identifier.endswith("/" + segment)
EndsWith(identifier, segment) ==
    Len(identifier) >= 2 /\ identifier[Len(identifier)] = segment

\* ================================================ factories and entities
\* the @cache factories of SystemModel and the class each constructs
SystemFactories ==
    [factory \in {"asset"} |-> "Asset"] @@
    [factory \in {"control_set"} |-> "ControlSet"] @@
    [factory \in {"control_strategy"} |-> "ControlStrategy"] @@
    [factory \in {"misbehaviour_set"} |-> "MisbehaviourSet"] @@
    [factory \in {"relation"} |-> "Relation"] @@
    [factory \in {"threat"} |-> "Threat"] @@
    [factory \in {"trustworthiness_attribute_set"} |-> "TrustworthinessAttributeSet"]

\* the @cache factories of DomainModel and the class each constructs
DomainFactories ==
    [factory \in {"asset"} |-> "Asset"] @@
    [factory \in {"control"} |-> "Control"] @@
    [factory \in {"construction_pattern"} |-> "ConstructionPattern"] @@
    [factory \in {"control_strategy"} |-> "ControlStrategy"] @@
    [factory \in {"matching_pattern"} |-> "MatchingPattern"] @@
    [factory \in {"misbehaviour"} |-> "Misbehaviour"] @@
    [factory \in {"relation"} |-> "Relation"] @@
    [factory \in {"root_pattern"} |-> "RootPattern"] @@
    [factory \in {"threat"} |-> "Threat"] @@
    [factory \in {"trustworthiness_attribute"} |-> "TrustworthinessAttribute"] @@
    [factory \in {"trustworthiness_attribute_set"} |-> "TrustworthinessAttributeSet"]

Models == {"system", "domain"}
Factories(model) == IF model = "system" THEN SystemFactories ELSE DomainFactories
Identifiers(model) == IF model = "system" THEN SysIds ELSE DomIds
GraphOf(model) == IF model = "system" THEN sysGraph ELSE domGraph

\* an entity object is [key |-> <<model, factory, uriref>>, n |-> k]: the
\* k-th object of that class constructed for uriref in that model
ClassOf(obj) == Factories(obj.key[1])[obj.key[2]]

\* the entity objects constructed for key
ObjectsOf(objects, key) == {o \in objects : o.key = key}

\* Class(uriref, model): a new object, not cached
construct(st, key) ==
    LET obj == [key |-> key, n |-> Cardinality(ObjectsOf(st.heap, key)) + 1]
    IN [heap |-> st.heap \cup {obj},
        cache |-> st.cache,
        objs |-> Append(st.objs, obj)]

\* a factory that constructs on every call and caches the latest object
call_factory_replacing(st, key) ==
    LET obj == [key |-> key, n |-> Cardinality(ObjectsOf(st.heap, key)) + 1]
    IN [heap |-> st.heap \cup {obj},
        cache |-> (st.cache \ ObjectsOf(st.cache, key)) \cup {obj},
        objs |-> Append(st.objs, obj)]

\* a @cache factory called with uriref: the cached object, constructed and
\* cached by the first call
call_factory(st, key) ==
    IF ObjectsOf(st.cache, key) /= {}
    THEN [st EXCEPT !.objs = Append(@, CHOOSE o \in ObjectsOf(st.cache, key) : TRUE)]
    ELSE LET obj == [key |-> key, n |-> Cardinality(ObjectsOf(st.heap, key)) + 1]
         IN [heap |-> st.heap \cup {obj},
             cache |-> st.cache \cup {obj},
             objs |-> Append(st.objs, obj)]

\* [self.factory(uriref) for uriref in urirefs] or [Class(uriref, self) for ...]
RECURSIVE map_entities(_, _, _, _, _, _)
map_entities(st, model, factory, cached, urirefs, i) ==
    IF i > Len(urirefs) THEN st
    ELSE LET key == <<model, factory, urirefs[i]>>
             next == IF cached THEN call_factory(st, key) ELSE construct(st, key)
         IN map_entities(next, model, factory, cached, urirefs, i + 1)

Heap == [heap |-> heap, cache |-> cache, objs |-> <<>>]

NoOut ==
    [op |-> None, model |-> None, name |-> None, uriref |-> None,
     raised |-> None, arg |-> None, objs |-> <<>>, constructed |-> 0]

\* the state after a model operation: the heap st it leaves, its outcome
Finish(st, out) ==
    /\ Cardinality(st.heap) <= MaxObjects
    /\ heap' = st.heap
    /\ cache' = st.cache
    /\ smOut' = [out EXCEPT !.constructed = Cardinality(st.heap) - Cardinality(heap)]
    /\ UNCHANGED <<calls, sysGraph, domGraph, rvs, rvRes, ldOut>>

\* model.factory(uriref)
Factory(model, factory, uriref) ==
    /\ factory \in DOMAIN Factories(model)
    /\ LET st == call_factory(Heap, <<model, factory, uriref>>)
       IN Finish(st, [NoOut EXCEPT !.op = "factory", !.model = model, !.name = factory,
                                   !.uriref = uriref, !.objs = st.objs])

\* ------------------------------------------ factories called from threads
Threads == {1, 2}

\* a thread outside any factory call
NoCall == [pc |-> "idle", key |-> <<None, None, None>>, objs |-> <<>>]
NoCalls == [t \in Threads |-> NoCall]

\* the factories the threads call
ThreadKeys == {<<model, "asset", uriref>> : model \in {"system"}, uriref \in SysIds}

\* thread t calls a @cache factory: the wrapper looks the key up and returns
\* the cached object; on a miss it enters the factory body, during which
\* the interpreter may switch to another thread
EnterFactory(t, key) ==
    /\ calls[t].pc \in {"idle", "returned"}
    /\ IF ObjectsOf(cache, key) /= {}
       THEN calls' = [calls EXCEPT ![t] =
                        [pc |-> "returned", key |-> key,
                         objs |-> <<CHOOSE o \in ObjectsOf(cache, key) : TRUE>>]]
       ELSE calls' = [calls EXCEPT ![t] = [pc |-> "constructing", key |-> key, objs |-> <<>>]]
    /\ UNCHANGED <<heap, cache, smOut, sysGraph, domGraph, rvs, rvRes, ldOut>>

\* the factory body of thread t returns its new object: the wrapper stores
\* it under the key, over any object stored meanwhile, and returns it
LeaveFactory(t) ==
    /\ calls[t].pc = "constructing"
    /\ LET key == calls[t].key
           obj == [key |-> key, n |-> Cardinality(ObjectsOf(heap, key)) + 1]
       IN /\ Cardinality(heap) < MaxObjects
          /\ heap' = heap \cup {obj}
          /\ cache' = (cache \ ObjectsOf(cache, key)) \cup {obj}
          /\ calls' = [calls EXCEPT ![t] = [pc |-> "returned", key |-> key, objs |-> <<obj>>]]
    /\ UNCHANGED <<smOut, sysGraph, domGraph, rvs, rvRes, ldOut>>

\* ------------------------------------------------- enumeration properties
\* DomainModel enumeration properties: the OBJECT name scanned for, the
\* class of the elements, and whether they come from the @cache factory
DomainEnumerations ==
    [prop \in {"assets"} |-> [object |-> "asset", factory |-> "asset", cached |-> TRUE]] @@
    [prop \in {"controls"} |-> [object |-> "control", factory |-> "control", cached |-> TRUE]] @@
    [prop \in {"construction_patterns"} |->
        [object |-> "construction_pattern", factory |-> "construction_pattern", cached |-> TRUE]] @@
    [prop \in {"control_strategies"} |->
        [object |-> "control_strategy", factory |-> "control_strategy", cached |-> TRUE]] @@
    [prop \in {"matching_patterns"} |->
        [object |-> "matching_pattern", factory |-> "matching_pattern", cached |-> TRUE]] @@
    [prop \in {"misbehaviours"} |->
        [object |-> "misbehaviour", factory |-> "misbehaviour", cached |-> TRUE]] @@
    [prop \in {"relations"} |-> [object |-> "relation", factory |-> "relation", cached |-> FALSE]] @@
    [prop \in {"root_patterns"} |->
        [object |-> "root_pattern", factory |-> "root_pattern", cached |-> FALSE]] @@
    [prop \in {"threats"} |-> [object |-> "threat", factory |-> "threat", cached |-> TRUE]] @@
    [prop \in {"trustworthiness_attributes_set"} |->
        [object |-> "trustworthiness_attribute_set",
         factory |-> "trustworthiness_attribute_set", cached |-> TRUE]] @@
    [prop \in {"trustworthiness_attributes"} |->
        [object |-> "trustworthiness_attribute",
         factory |-> "trustworthiness_attribute", cached |-> TRUE]]

\* SystemModel enumeration properties that scan for one OBJECT type
SystemEnumerations ==
    [prop \in {"control_sets"} |->
        [object |-> "control_set", factory |-> "control_set", cached |-> TRUE]] @@
    [prop \in {"control_strategies"} |->
        [object |-> "control_strategy", factory |-> "control_strategy", cached |-> TRUE]] @@
    [prop \in {"misbehaviour_sets"} |->
        [object |-> "misbehaviour_set", factory |-> "misbehaviour_set", cached |-> TRUE]] @@
    [prop \in {"relations"} |->
        [object |-> "cardinality_constraint", factory |-> "relation", cached |-> TRUE]] @@
    [prop \in {"threats"} |-> [object |-> "threat", factory |-> "threat", cached |-> TRUE]] @@
    [prop \in {"trustworthiness_attribute_sets"} |->
        [object |-> "trustworthiness_attribute_set",
         factory |-> "trustworthiness_attribute_set", cached |-> TRUE]]

Enumerations(model) == IF model = "system" THEN SystemEnumerations ELSE DomainEnumerations

\* model.prop, e.g. [self.threat(uriref) for uriref in
\*                   self.subjects(PREDICATE['type'], OBJECT['threat'])]
Enumerate(model, prop) ==
    LET e == Enumerations(model)[prop]
        out == [NoOut EXCEPT !.op = "enumerate", !.model = model, !.name = prop]
    IN IF e.object \notin DOMAIN OBJECT
       THEN Finish(Heap, [out EXCEPT !.raised = "KeyError", !.arg = e.object])
       ELSE \E urirefs \in Orders(Subjects(GraphOf(model), PREDICATE["type"], OBJECT[e.object])
                                  \cap Identifiers(model)) :
               LET st == map_entities(Heap, model, e.factory, e.cached, urirefs, 1)
               IN Finish(st, [out EXCEPT !.objs = st.objs])

\* domain Asset.parents of the Asset wrapping uriref
Parents(uriref) ==
    LET out == [NoOut EXCEPT !.op = "parents", !.model = "domain", !.name = "asset",
                             !.uriref = uriref]
    IN /\ ObjectsOf(heap, <<"domain", "asset", uriref>>) /= {}
       /\ \E urirdf_list \in Orders(Objects(domGraph, uriref, PREDICATE["sub_class_of"])
                                    \cap DomIds) :
             LET st == map_entities(Heap, "domain", "asset", FALSE, urirdf_list, 1)
             IN Finish(st, [out EXCEPT !.objs = st.objs])

\* ------------------------------------------------------------ Asset.label
\* text is a sequence of characters.  The identifiers and label literals
\* whose text the label accessors read:
UriChars == {"/", "#", "d", "R"}
RECURSIVE Texts(_, _)
Texts(chars, n) ==
    IF n = 0 THEN {<<>>}
    ELSE Texts(chars, n - 1) \cup
         {Append(t, c) : t \in {u \in Texts(chars, n - 1) : Len(u) = n - 1}, c \in chars}
UriTexts == Texts(UriChars, MaxUriLen) \ {<<>>}
LabelTexts == {<<>>, <<"L">>}

\* an optional text: None, or a text
NoText == [none |-> TRUE, text |-> <<>>]
Text(t) == [none |-> FALSE, text |-> t]

\* text.split(sep) from the i-th character on: pieces are the pieces
\* completed so far, piece the one being read
RECURSIVE split_from(_, _, _, _, _)
split_from(text, sep, i, pieces, piece) ==
    IF i > Len(text) THEN Append(pieces, piece)
    ELSE IF text[i] = sep
    THEN split_from(text, sep, i + 1, Append(pieces, piece), <<>>)
    ELSE split_from(text, sep, i + 1, pieces, Append(piece, text[i]))

split(text, sep) == split_from(text, sep, 1, <<>>, <<>>)

\* domain Entity.label: the values it can return
entity_label(dg, uriref) ==
    {IF label_value = None \/ label_value = <<>> THEN NoText ELSE Text(label_value) :
        label_value \in Values(dg, uriref, PREDICATE["label"])}

\* domain Asset.label: the values it can return
asset_label(dg, uriref) ==
    {IF label.none
     THEN LET pieces == split(uriref, "/") IN Text(pieces[Len(pieces)])
     ELSE label : label \in entity_label(dg, uriref)}

\* Asset(uriref, domain_model).label
AssetLabel(uriref) ==
    /\ <<uriref, PREDICATE["type"], OBJECT["asset"]>> \in domGraph
    /\ \E label \in asset_label(domGraph, uriref) :
          smOut' = [op |-> "label", uriref |-> uriref, label |-> label]
    /\ UNCHANGED <<calls, sysGraph, domGraph, heap, cache, rvs, rvRes, ldOut>>

\* ----------------------------------------------------- Threat descriptions
\* the comment literals of a threat: a colon, a double quote, a blank, a
\* lower-case and an upper-case letter
Colon == ":"
Quote == "\""
Blank == " "
CommentChars == {Colon, Quote, Blank, "a", "A"}
CommentTexts == Texts(CommentChars, MaxCommentLen)

\* str.upper() of one character
upper(c) == IF c = "a" THEN "A" ELSE c

\* text.strip()
RECURSIVE lstrip(_)
lstrip(text) ==
    IF text /= <<>> /\ text[1] = Blank THEN lstrip(Tail(text)) ELSE text

RECURSIVE rstrip(_)
rstrip(text) ==
    IF text /= <<>> /\ text[Len(text)] = Blank
    THEN rstrip(SubSeq(text, 1, Len(text) - 1)) ELSE text

strip(text) == rstrip(lstrip(text))

\* text.split(sep, 1): at most one split, at the first sep
split_once(text, sep) ==
    IF \E i \in DOMAIN text : text[i] = sep
    THEN LET i == CHOOSE k \in DOMAIN text : text[k] = sep /\ \A j \in 1..(k - 1) : text[j] /= sep
         IN <<SubSeq(text, 1, i - 1), SubSeq(text, i + 1, Len(text))>>
    ELSE <<text>>

\* the value of a text accessor: the text returned, or the error raised
TextReturned(t) == [raised |-> None, text |-> t]
TextRaised(error) == [raised |-> error, text |-> <<>>]

\* comment[0].upper() + comment[1:]
capitalised(comment) ==
    IF comment = <<>> THEN TextRaised("IndexError")
    ELSE TextReturned(<<upper(comment[1])>> \o Tail(comment))

\* domain Entity.comment: the values it can return
entity_comment(dg, uriref) ==
    {IF label_value = None \/ label_value = <<>> THEN NoText ELSE Text(label_value) :
        label_value \in Values(dg, uriref, PREDICATE["comment"])}

\* domain Threat.short_description, given the value of self.comment
short_description(comment) ==
    IF comment.none THEN TextRaised("AttributeError")
    ELSE TextReturned(strip(split_once(comment.text, Colon)[1]))

\* long_description splitting at every colon and keeping the last piece
long_description_last_colon(comment) ==
    IF comment.none THEN TextRaised("AttributeError")
    ELSE LET pieces == split(comment.text, Colon)
         IN capitalised(strip(pieces[Len(pieces)]))

\* domain Threat.long_description, given the value of self.comment
long_description(comment) ==
    IF comment.none THEN TextRaised("AttributeError")
    ELSE LET pieces == split_once(comment.text, Colon)
         IN capitalised(strip(pieces[Len(pieces)]))

\* the while loop of system Threat._get_threat_comment from char_index on:
\* the index it stops at, or 0 when it runs off the end of the comment
RECURSIVE scan_colon(_, _, _)
scan_colon(comment, char_index, quote_counter) ==
    IF char_index > Len(comment) THEN 0
    ELSE IF comment[char_index] /= Colon \/ quote_counter % 2 /= 0
    THEN scan_colon(comment, char_index + 1,
                    IF comment[char_index] = Quote THEN quote_counter + 1 ELSE quote_counter)
    ELSE char_index

\* system Threat._get_threat_comment, given the comment literal (or None)
get_threat_comment(comment) ==
    IF comment = None THEN TextReturned(<<"*", "*", "*", "*">>)
    ELSE LET char_index == scan_colon(comment, 1, 0)
         IN IF char_index = 0 THEN TextRaised("IndexError")
            ELSE TextReturned(SubSeq(comment, 1, char_index - 1))

\* system Threat.description, given the comment literal (or None)
description(comment) ==
    LET short_comment == get_threat_comment(comment)
    IN IF short_comment.raised /= None THEN short_comment
       ELSE IF comment = None THEN TextRaised("TypeError")
       ELSE capitalised(strip(SubSeq(comment, Len(short_comment.text) + 2, Len(comment))))

\* threat.short_description and threat.long_description of a domain Threat
DomainThreatDescriptions(uriref) ==
    /\ \E comment \in entity_comment(domGraph, uriref) :
          smOut' = [op |-> "descriptions", model |-> "domain", uriref |-> uriref,
                    short |-> short_description(comment),
                    long |-> long_description(comment)]
    /\ UNCHANGED <<calls, sysGraph, domGraph, heap, cache, rvs, rvRes, ldOut>>

\* system Threat.comment: _get_threat_comment, then the replacement of the
\* phrase re-disabled at "Router", which no text over CommentChars contains
threat_comment(comment) == get_threat_comment(comment)

\* threat.comment and threat.description of a system Threat
SystemThreatDescriptions(uriref) ==
    /\ \E comment \in Values(sysGraph, uriref, PREDICATE["comment"]) :
          smOut' = [op |-> "descriptions", model |-> "system", uriref |-> uriref,
                    short |-> threat_comment(comment),
                    long |-> description(comment)]
    /\ UNCHANGED <<calls, sysGraph, domGraph, heap, cache, rvs, rvRes, ldOut>>

\* ------------------------------------------------------------- get_entity
\* DomainModel.is_asset
is_asset(dg, uriref) == <<uriref, PREDICATE["type"], OBJECT["asset"]>> \in dg

\* the type tests of get_entity, in order: the OBJECT name tested for and
\* the class (by its factory name) returned on a match
dispatch_tests ==
    <<[object |-> "misbehaviour_set", factory |-> "misbehaviour_set"],
      [object |-> "threat", factory |-> "threat"],
      [object |-> "cardinality_constraint", factory |-> "relation"],
      [object |-> "control_strategy", factory |-> "control_strategy"],
      [object |-> "trustworthiness_attribute_set", factory |-> "trustworthiness_attribute_set"],
      [object |-> "control_set", factory |-> "control_set"]>>

\* get_entity from its i-th test on; obj is the identifier's type that
\* next(self.objects(uriref, type), None) yields.  Returns the factory name
\* of the class to construct, or the error raised.
RECURSIVE get_entity_from(_, _, _, _, _)
get_entity_from(sg, dg, uriref, obj, i) ==
    IF i > Len(dispatch_tests)
    THEN IF is_asset(dg, obj)
         THEN Returned("asset")
         ELSE Raised("KeyError", uriref)
    ELSE LET test == dispatch_tests[i]
         IN IF test.object \notin DOMAIN OBJECT
            THEN Raised("KeyError", test.object)
            ELSE IF <<uriref, PREDICATE["type"], OBJECT[test.object]>> \in sg
            THEN Returned(test.factory)
            ELSE get_entity_from(sg, dg, uriref, obj, i + 1)

get_entity(sg, dg, uriref, obj) == get_entity_from(sg, dg, uriref, obj, 1)

\* system_model.get_entity(uriref)
GetEntity(uriref) ==
    \E obj \in NextOf(Objects(sysGraph, uriref, PREDICATE["type"])) :
        LET r == get_entity(sysGraph, domGraph, uriref, obj)
            out == [NoOut EXCEPT !.op = "get_entity", !.model = "system", !.uriref = uriref]
        IN IF r.raised /= None
           THEN Finish(Heap, [out EXCEPT !.raised = r.raised, !.arg = r.arg])
           ELSE LET st == construct(Heap, <<"system", r.value, uriref>>)
                IN Finish(st, [out EXCEPT !.name = r.value, !.objs = st.objs])

\* ------------------------------------------------ SystemModel construction
ontology_uri(g) == NextOf(Subjects(g, RDF_type, OWL_Ontology))

\* DomainModel.version_info: the outcomes it can have
version_info(dg) ==
    IF "version_info" \notin DOMAIN PREDICATE
    THEN {Raised("KeyError", "version_info")}
    ELSE {Returned(v) :
            v \in UNION {Values(dg, o, PREDICATE["version_info"]) : o \in ontology_uri(dg)}}

\* SystemModel.domain_version: the outcomes it can have
domain_version(sg) ==
    IF "domain_version" \notin DOMAIN PREDICATE
    THEN {Raised("KeyError", "domain_version")}
    ELSE {Returned(v) :
            v \in UNION {Values(sg, o, PREDICATE["domain_version"]) : o \in ontology_uri(sg)}}

\* SystemModel.check_domain_match: the outcomes it can have
check_domain_match(sg, dg, attached) ==
    IF ~attached
    THEN {Raised("AttributeError", "domain_model")}
    ELSE UNION {
            IF dm_version.raised /= None THEN {dm_version}
            ELSE UNION {
                    IF sm_version.raised /= None THEN {sm_version}
                    ELSE IF dm_version.value /= sm_version.value
                    THEN {Raised("ValueError", "Domain model version mismatch!")}
                    ELSE {Returned(None)}
                    : sm_version \in domain_version(sg)}
            : dm_version \in version_info(dg)}

Unset == <<>>

\* the loop keeping in each slot the first sub-graph that falls in it
RECURSIVE partition_first_wins(_, _, _)
partition_first_wins(named_graphs, i, slots) ==
    IF i > Len(named_graphs) THEN slots
    ELSE LET identifier == named_graphs[i]
         IN partition_first_wins(named_graphs, i + 1,
                IF EndsWith(identifier, "inf")
                THEN (IF slots.inferred_graph = Unset
                      THEN [slots EXCEPT !.inferred_graph = identifier] ELSE slots)
                ELSE IF EndsWith(identifier, "ui")
                THEN (IF slots.ui_graph = Unset
                      THEN [slots EXCEPT !.ui_graph = identifier] ELSE slots)
                ELSE (IF slots.graph = Unset
                      THEN [slots EXCEPT !.graph = identifier] ELSE slots))

\* the loop over the named sub-graphs of SystemModel.__init__, from the
\* i-th on: the attributes it leaves set
RECURSIVE partition_from(_, _, _)
partition_from(named_graphs, i, slots) ==
    IF i > Len(named_graphs) THEN slots
    ELSE LET identifier == named_graphs[i]
         IN partition_from(named_graphs, i + 1,
                IF EndsWith(identifier, "inf")
                THEN [slots EXCEPT !.inferred_graph = identifier]
                ELSE IF EndsWith(identifier, "ui")
                THEN [slots EXCEPT !.ui_graph = identifier]
                ELSE [slots EXCEPT !.graph = identifier])

NoLoad ==
    [op |-> None, named_graphs |-> <<>>, domain_model_filename |-> None,
     self |-> [graph |-> Unset, inferred_graph |-> Unset, ui_graph |-> Unset,
               domain_model |-> FALSE],
     raised |-> None, arg |-> None, returned |-> FALSE]

\* SystemModel(system_model_filename, domain_model_filename), the file
\* holding sysGraph in the named sub-graphs named_graphs
SystemModelInit ==
    \E contexts \in SUBSET ContextIds, domain_model_filename \in {None, "domain.zip"} :
      /\ Cardinality(contexts) <= MaxContexts
      /\ \E named_graphs \in Orders(contexts) :
          LET slots == partition_from(named_graphs, 1, NoLoad.self)
              self == [slots EXCEPT !.domain_model = (domain_model_filename /= None)]
          IN \E r \in check_domain_match(sysGraph, domGraph, self.domain_model) :
                ldOut' = [op |-> "SystemModel", named_graphs |-> named_graphs,
                          domain_model_filename |-> domain_model_filename,
                          self |-> self, raised |-> r.raised, arg |-> r.arg,
                          returned |-> (r.raised = None)]
      /\ UNCHANGED <<calls, rvs, rvRes, sysGraph, domGraph, heap, cache, smOut>>

\* ------------------------------------------------ DomainModel construction
\* the triples a domain model file may hold
DomainFileTriples ==
    {<<DomOntology, RDF_type, OWL_Ontology>>,
     <<DomOntology, "rdfs#label", "Network">>,
     <<DomOntology, "rdfs#comment", "Network domain model">>} \cup
    {<<DomOntology, "owl#versionInfo", v>> : v \in Versions} \cup
    {<<d, RDF_type, "owl#Class">> : d \in DomIds}

\* DomainModel(domain_model_filename): the file holds the triples source;
\* has_nq tells whether a zip archive has a member named *.nq
DomainModelInit ==
    \E source \in SUBSET DomainFileTriples,
       domain_model_filename \in {"domain.zip", "domain.nq"},
       has_nq \in BOOLEAN :
        /\ domGraph' = IF domain_model_filename = "domain.zip" /\ ~has_nq THEN {} ELSE source
        /\ ldOut' = [op |-> "DomainModel", source |-> source,
                     domain_model_filename |-> domain_model_filename, has_nq |-> has_nq,
                     raised |-> None, arg |-> None, returned |-> TRUE]
        /\ UNCHANGED <<calls, rvs, rvRes, sysGraph, heap, cache, smOut>>

\* ------------------------------------------------------ Asset.is_asserted
\* In a graph of quads <<subject, predicate, object, context>> the fourth
\* component is the identifier of the named sub-graph that holds the triple.
\* named_graph.triples((s, p, None)): the triples of one named sub-graph
TriplesOf(quads, named_graph, s, p) ==
    {q \in quads : q[4] = named_graph /\ q[1] = s /\ q[2] = p}

\* is_asserted looking for the label in the whole system model
is_asserted_any_graph(self, quads, uriref) ==
    IF self.inferred_graph = Unset
    THEN Raised("AttributeError", "inferred_graph")
    ELSE Returned({q \in quads : q[1] = uriref /\ q[2] = PREDICATE["label"]} = {})

\* system Asset.is_asserted, self being the attributes of the system model
is_asserted(self, quads, uriref) ==
    IF self.inferred_graph = Unset
    THEN Raised("AttributeError", "inferred_graph")
    ELSE Returned(TriplesOf(quads, self.inferred_graph, uriref, PREDICATE["label"]) = {})

\* Asset(uriref, system_model).is_asserted
IsAsserted(uriref) ==
    /\ LET r == is_asserted(ldOut.self, sysGraph, uriref)
       IN smOut' = [op |-> "is_asserted", uriref |-> uriref,
                    raised |-> r.raised, value |-> r.value]
    /\ UNCHANGED <<calls, sysGraph, domGraph, heap, cache, rvs, rvRes, ldOut>>

\* ------------------------------------------------------ SystemModel.assets
\* asset_urirefs += self.subjects(type, asset_class), from the i-th asset
\* class on: the lists the loop can build
RECURSIVE concat_subjects(_, _, _)
concat_subjects(sg, asset_classes, i) ==
    IF i > Len(asset_classes) THEN {<<>>}
    ELSE {found \o rest :
            found \in Orders(Subjects(sg, PREDICATE["type"], asset_classes[i])),
            rest \in concat_subjects(sg, asset_classes, i + 1)}

\* the identifiers of everything that has a type, asset class or not
asset_urirefs_any_type(sg, asset_classes) ==
    Orders({t[1] : t \in {u \in sg : u[2] = PREDICATE["type"]}})

\* the asset_urirefs that SystemModel.assets can collect, asset_classes
\* being the identifiers of domain_model.assets in order
asset_urirefs(sg, asset_classes) == concat_subjects(sg, asset_classes, 1)

\* the entry of the @cache of the assets property
AssetsKey == <<"system", "assets", None>>

\* system_model.assets
SystemAssets ==
    IF ObjectsOf(cache, AssetsKey) /= {}
    THEN /\ smOut' = [op |-> "assets", raised |-> None,
                      objs |-> (CHOOSE c \in ObjectsOf(cache, AssetsKey) : TRUE).value]
         /\ UNCHANGED <<calls, heap, cache, sysGraph, domGraph, rvs, rvRes, ldOut>>
    ELSE \E asset_classes \in Orders(Subjects(domGraph, PREDICATE["type"], OBJECT["asset"])) :
           \E urirefs \in asset_urirefs(sysGraph, asset_classes) :
              LET dm == map_entities(Heap, "domain", "asset", TRUE, asset_classes, 1)
                  st == map_entities([dm EXCEPT !.objs = <<>>], "system", "asset", TRUE, urirefs, 1)
              IN /\ heap' = st.heap
                 /\ cache' = st.cache \cup {[key |-> AssetsKey, n |-> 1, value |-> st.objs]}
                 /\ smOut' = [op |-> "assets", raised |-> None, objs |-> st.objs]
                 /\ UNCHANGED <<calls, sysGraph, domGraph, rvs, rvRes, ldOut>>

\* -------------------------------------------------------- risk aggregation
\* the risk levels of the domain model, and the lexical forms of their
\* level values: the numerals of 0..MaxRank and a text that is no number
RiskLevelIds == {"domain#RiskLevelLow", "domain#RiskLevelMedium"}
Numerals == <<"0", "1", "2", "3", "4", "5", "6", "7", "8", "9">>
LevelValueTexts == {Numerals[n + 1] : n \in 0..MaxRank} \cup {"high"}

\* the literals of datatype xsd:integer, each at the place of its lexical
\* form in Numerals; every other literal is plain
IntegerLiterals ==
    <<"0^^xsd:integer", "1^^xsd:integer", "2^^xsd:integer", "3^^xsd:integer",
      "4^^xsd:integer", "5^^xsd:integer", "6^^xsd:integer", "7^^xsd:integer",
      "8^^xsd:integer", "9^^xsd:integer">>

IsIntegerLiteral(x) == \E i \in DOMAIN IntegerLiterals : IntegerLiterals[i] = x

\* str(literal): the lexical form of a literal
lexical(x) ==
    IF IsIntegerLiteral(x)
    THEN Numerals[CHOOSE i \in DOMAIN IntegerLiterals : IntegerLiterals[i] = x]
    ELSE x

\* int(x) of a literal, which parses its lexical form, or of None
int(x) ==
    IF x = None THEN Raised("TypeError", x)
    ELSE IF \E n \in 0..(Len(Numerals) - 1) : Numerals[n + 1] = lexical(x)
    THEN Returned(CHOOSE n \in 0..(Len(Numerals) - 1) : Numerals[n + 1] = lexical(x))
    ELSE Raised("ValueError", x)

\* a dict key that is None; str(None) is "None"
NoneKey == <<"NoneType", "None">>

\* DomainModel.label_uri: the values it can return, as dict keys
label_uri(dg, uriref) ==
    {IF l = None THEN NoneKey ELSE Literal(l) : l \in Values(dg, uriref, PREDICATE["label"])}

\* DomainModel.level_value: the outcomes it can have
level_value(dg, uriref) == {int(x) : x \in Values(dg, uriref, PREDICATE["level_value"])}

\* MisbehaviourSet._risk_uri
risk_uri(sg, uriref) == Values(sg, uriref, PREDICATE["has_risk"])

\* the @cache properties risk_level_label and risk_level_value of the
\* misbehaviour set uriref: what they can be in one run
risk_levels_of(sg, dg, uriref) ==
    {[risk_level_label |-> l, risk_level_value |-> v] :
        l \in UNION {label_uri(dg, r) : r \in risk_uri(sg, uriref)},
        v \in UNION {level_value(dg, r) : r \in risk_uri(sg, uriref)}}

\* the loop recording the rank of every misbehaviour set, so that the last
\* one seen with a label decides its rank
RECURSIVE risk_vector_last_seen(_, _, _, _, _)
risk_vector_last_seen(levels, misbehaviour_sets, i, rv, rl_map) ==
    IF i > Len(misbehaviour_sets)
    THEN Returned([rv |-> rv, rl_map |-> rl_map])
    ELSE LET ms == levels[misbehaviour_sets[i]]
             label == ms.risk_level_label
         IN IF ms.risk_level_value.raised /= None
            THEN ms.risk_level_value
            ELSE risk_vector_last_seen(levels, misbehaviour_sets, i + 1,
                    Put(rv, label, Get(rv, label, 0) + 1),
                    Put(rl_map, label, ms.risk_level_value.value))

\* the for loop of risk_vector from the i-th misbehaviour set on
RECURSIVE risk_vector_from(_, _, _, _, _)
risk_vector_from(levels, misbehaviour_sets, i, rv, rl_map) ==
    IF i > Len(misbehaviour_sets)
    THEN Returned([rv |-> rv, rl_map |-> rl_map])
    ELSE LET ms == levels[misbehaviour_sets[i]]
             label == ms.risk_level_label
         IN IF label \notin Keys(rl_map) /\ ms.risk_level_value.raised /= None
            THEN ms.risk_level_value
            ELSE risk_vector_from(levels, misbehaviour_sets, i + 1,
                    Put(rv, label, Get(rv, label, 0) + 1),
                    IF label \notin Keys(rl_map)
                    THEN Put(rl_map, label, ms.risk_level_value.value)
                    ELSE rl_map)

\* the None that risk_vector returns in place of a vector
NoVector == [none |-> TRUE]

\* SystemModel.risk_vector over the misbehaviour sets in enumeration order
risk_vector(levels, misbehaviour_sets) ==
    LET r == risk_vector_from(levels, misbehaviour_sets, 1, <<>>, <<>>)
    IN IF r.raised /= None THEN r
       ELSE LET vector == RiskVector(Given(r.value.rv), Given(r.value.rl_map))
            IN IF vector.raised /= None THEN Returned(NoVector) ELSE Returned(vector)

\* the list comprehension of filter_misbehaviour_sets from the i-th on
RECURSIVE filter_from(_, _, _, _, _)
filter_from(levels, misbehaviour_sets, risk_level_value, i, filtered) ==
    IF i > Len(misbehaviour_sets) THEN Returned(filtered)
    ELSE LET ms == levels[misbehaviour_sets[i]]
         IN IF ms.risk_level_value.raised /= None THEN ms.risk_level_value
            ELSE filter_from(levels, misbehaviour_sets, risk_level_value, i + 1,
                    IF ms.risk_level_value.value >= risk_level_value
                    THEN Append(filtered, <<misbehaviour_sets[i], ms.risk_level_value.value>>)
                    ELSE filtered)

\* filter_misbehaviour_sets without the sort
filter_unsorted(levels, misbehaviour_sets, risk_level_value) ==
    LET r == filter_from(levels, misbehaviour_sets, risk_level_value, 1, <<>>)
    IN IF r.raised /= None THEN r
       ELSE Returned([i \in DOMAIN r.value |-> r.value[i][1]])

\* SystemModel.filter_misbehaviour_sets: the identifiers of the misbehaviour
\* sets returned, in order
filter_misbehaviour_sets(levels, misbehaviour_sets, risk_level_value) ==
    LET r == filter_from(levels, misbehaviour_sets, risk_level_value, 1, <<>>)
    IN IF r.raised /= None THEN r
       ELSE LET ms_sorted == SortedByValue(r.value, TRUE)
            IN Returned([i \in DOMAIN ms_sorted |-> ms_sorted[i][1]])

\* what the risk level properties of every misbehaviour set of the system
\* graph can be in one run
RiskLevelViews ==
    LET M == Subjects(sysGraph, PREDICATE["type"], OBJECT["misbehaviour_set"])
        All == UNION {risk_levels_of(sysGraph, domGraph, m) : m \in M}
    IN {levels \in [M -> All] : \A m \in M : levels[m] \in risk_levels_of(sysGraph, domGraph, m)}

\* system_model.risk_vector()
RiskVectorOf ==
    \E misbehaviour_sets \in
           Orders(Subjects(sysGraph, PREDICATE["type"], OBJECT["misbehaviour_set"])),
       levels \in RiskLevelViews :
        LET st == map_entities(Heap, "system", "misbehaviour_set", TRUE, misbehaviour_sets, 1)
            r == risk_vector(levels, misbehaviour_sets)
        IN /\ Cardinality(st.heap) <= MaxObjects
           /\ heap' = st.heap
           /\ cache' = st.cache
           /\ smOut' = [op |-> "risk_vector", misbehaviour_sets |-> misbehaviour_sets,
                        levels |-> levels, raised |-> r.raised, value |-> r.value]
           /\ UNCHANGED <<calls, sysGraph, domGraph, rvs, rvRes, ldOut>>

\* system_model.filter_misbehaviour_sets(risk_level_value)
FilterMisbehaviourSets(risk_level_value) ==
    \E misbehaviour_sets \in
           Orders(Subjects(sysGraph, PREDICATE["type"], OBJECT["misbehaviour_set"])),
       levels \in RiskLevelViews :
        LET st == map_entities(Heap, "system", "misbehaviour_set", TRUE, misbehaviour_sets, 1)
            r == filter_misbehaviour_sets(levels, misbehaviour_sets, risk_level_value)
        IN /\ Cardinality(st.heap) <= MaxObjects
           /\ heap' = st.heap
           /\ cache' = st.cache
           /\ smOut' = [op |-> "filter", misbehaviour_sets |-> misbehaviour_sets,
                        levels |-> levels, risk_level_value |-> risk_level_value,
                        raised |-> r.raised, value |-> r.value]
           /\ UNCHANGED <<calls, sysGraph, domGraph, rvs, rvRes, ldOut>>

\* ------------------------------------------------ EntityLevel.level_value
\* the level value literals of a domain graph: plain and integer-typed
\* numerals of 0..MaxRank, and a text that is no number
LevelLiterals == LevelValueTexts \cup {IntegerLiterals[n + 1] : n \in 0..MaxRank}

\* the truth test `if urirdf`: None is false, a typed literal is as true as
\* its Python value, a plain literal as true as its text is not empty
truth(urirdf) ==
    IF urirdf = None THEN FALSE
    ELSE IF IsIntegerLiteral(urirdf) THEN int(urirdf).value /= 0
    ELSE urirdf /= ""

\* an Optional[int]
NoLevel == [none |-> TRUE, int |-> 0]
Level(n) == [none |-> FALSE, int |-> n]

\* EntityLevel.level_value on the literal that domain_model.value returned
entity_level_value(urirdf) ==
    IF truth(urirdf)
    THEN IF int(urirdf).raised \in {"ValueError", "TypeError"}
         THEN NoLevel
         ELSE Level(int(urirdf).value)
    ELSE NoLevel

\* PerformanceImpactLevel(uriref, domain_model).level_value next to
\* domain_model.level_value(uriref)
EntityLevelValue ==
    \E uriref \in RiskLevelIds :
       \E urirdf \in Values(domGraph, uriref, PREDICATE["level_value"]),
          value \in level_value(domGraph, uriref) :
            /\ smOut' = [op |-> "level_value", uriref |-> uriref,
                         entity |-> entity_level_value(urirdf), model |-> value]
            /\ UNCHANGED <<calls, sysGraph, domGraph, heap, cache, rvs, rvRes, ldOut>>

\* ------------------------------------------------------ RiskVector.__str__
\* a text built by formatting is kept as the sequence of its pieces
\* sep.join(parts)
RECURSIVE join(_, _)
join(sep, parts) ==
    IF parts = <<>> THEN <<>>
    ELSE IF Len(parts) = 1 THEN parts[1]
    ELSE parts[1] \o <<sep>> \o join(sep, Tail(parts))

\* f"{str(level[0])}: {self.risk_dict[level[0]]}"
str_entry(name, count) == <<name, ": ", Numerals[count + 1]>>

\* the list comprehension of __str__ from position i of sorted_levels:
\* self.risk_dict[level[0]] raises KeyError for a level without a count
RECURSIVE str_entries(_, _, _)
str_entries(self, i, acc) ==
    IF i > Len(self.sorted_levels) THEN [raised |-> None, parts |-> acc]
    ELSE LET name == self.sorted_levels[i][1]
         IN IF name \notin Keys(self.risk_dict)
            THEN [raised |-> "KeyError", parts |-> <<>>]
            ELSE str_entries(self, i + 1,
                             Append(acc, str_entry(name, Get(self.risk_dict, name, 0))))

\* RiskVector.__str__
risk_vector_str(self) ==
    LET entries == str_entries(self, 1, <<>>)
    IN [raised |-> entries.raised, value |-> join("\n", entries.parts)]

\* str(rvs[-1])
StrOf ==
    /\ Len(rvs) >= 1
    /\ rvRes' = [op |-> "str", self |-> Len(rvs),
                 raised |-> risk_vector_str(rvs[Len(rvs)]).raised,
                 text |-> risk_vector_str(rvs[Len(rvs)]).value]
    /\ UNCHANGED rvs

\* ---------------------------------------------- Threat.control_strategies
\* the fields and properties of a system ControlStrategy object: those of
\* Entity and those of ControlStrategy
ControlStrategyAttributes ==
    {"uriref", "system_model", "has_id", "parent", "label", "comment", "description",
     "effectiveness_number", "effectiveness_label", "maximum_likelihood_number",
     "is_current_risk", "is_future_risk", "blocked_threats", "triggered_threats",
     "is_active", "mandatory_control_sets", "optional_control_sets", "control_sets"}

\* the outcome of control_strategies: the strategies returned, or the error
StrategiesReturned(csgs) == [raised |-> None, arg |-> None, csgs |-> csgs]
StrategiesRaised(error, a) == [raised |-> error, arg |-> a, csgs |-> <<>>]

\* the first loop of control_strategies over chain(blocks, mitigates): the
\* first strategy is fetched from its factory and csg.is_future_risk_csg,
\* which is no attribute of a ControlStrategy, raises AttributeError
future_risk_loop(st, csg_uris) ==
    IF csg_uris = <<>> THEN [st |-> st, out |-> StrategiesReturned(<<>>)]
    ELSE LET next == call_factory(st, <<"system", "control_strategy", csg_uris[1]>>)
         IN IF "is_future_risk_csg" \notin ControlStrategyAttributes
            THEN [st |-> next, out |-> StrategiesRaised("AttributeError", "is_future_risk_csg")]
            ELSE [st |-> next, out |-> StrategiesReturned(next.objs)]

\* Threat.control_strategies, a property: future_risk is always None, the
\* first branch is taken and the elif branch is skipped
control_strategies(st, future_risk, blocks, mitigates) ==
    IF future_risk = "True" \/ future_risk = None
    THEN future_risk_loop(st, blocks \o mitigates)
    ELSE [st |-> st, out |-> StrategiesReturned(<<>>)]

ThreatIds == {"system#T"}

\* threat.control_strategies
ControlStrategies ==
    \E threat \in ThreatIds :
       \E blocks \in Orders(Subjects(sysGraph, PREDICATE["blocks"], threat)),
          mitigates \in Orders(Subjects(sysGraph, PREDICATE["mitigates"], threat)) :
            LET r == control_strategies(Heap, None, blocks, mitigates)
            IN /\ Cardinality(r.st.heap) <= MaxObjects
               /\ heap' = r.st.heap
               /\ cache' = r.st.cache
               /\ smOut' = [op |-> "control_strategies", uriref |-> threat,
                            raised |-> r.out.raised, arg |-> r.out.arg, csgs |-> r.out.csgs]
               /\ UNCHANGED <<calls, sysGraph, domGraph, rvs, rvRes, ldOut>>

\* ------------------------------------------------------------- Asset.type
\* system_model.asset(uriref).type: the system-graph value lookup, then the
\* domain-model asset factory called with what it returned, None included
AssetType(uriref) ==
    \E type \in Values(sysGraph, uriref, PREDICATE["type"]) :
        LET a == call_factory(Heap, <<"system", "asset", uriref>>)
            st == call_factory([a EXCEPT !.objs = <<>>], <<"domain", "asset", type>>)
        IN /\ Cardinality(st.heap) <= MaxObjects
           /\ heap' = st.heap
           /\ cache' = st.cache
           /\ smOut' = [op |-> "asset_type", uriref |-> uriref, raised |-> None,
                        objs |-> st.objs]
           /\ UNCHANGED <<calls, sysGraph, domGraph, rvs, rvRes, ldOut>>

\* ------------------------------------- Asset.misbehaviour_sets and the like
\* the accessors of a system Asset that filter an enumeration of the model
AssetSetProperties == {"misbehaviour_sets", "control_sets", "trustworthiness_attribute_sets"}

\* the list comprehension kept whole: no test of the asset of a set
RECURSIVE asset_sets_unfiltered(_, _, _, _, _, _)
asset_sets_unfiltered(st, self, sets, located_at, i, acc) ==
    IF i > Len(sets) THEN [st |-> st, objs |-> acc]
    ELSE asset_sets_unfiltered(st, self, sets, located_at, i + 1, Append(acc, sets[i]))

\* [s for s in sets if s.asset == self] from the i-th set on: s.asset is
\* system_model.asset(value(s.uriref, located_at)), the object the @cache
\* factory holds, and == between entity objects is identity
RECURSIVE asset_sets_from(_, _, _, _, _, _)
asset_sets_from(st, self, sets, located_at, i, acc) ==
    IF i > Len(sets) THEN [st |-> st, objs |-> acc]
    ELSE LET next == call_factory([st EXCEPT !.objs = <<>>],
                                  <<"system", "asset", located_at[sets[i].key[3]]>>)
             asset == next.objs[1]
         IN asset_sets_from(next, self, sets, located_at, i + 1,
                            IF asset = self THEN Append(acc, sets[i]) ELSE acc)

\* what value(uriref, located_at) can return for every identifier
LocatedAtViews ==
    {located_at \in [SysIds -> SysIds \cup {None}] :
        \A s \in SysIds : located_at[s] \in Values(sysGraph, s, PREDICATE["located_at"])}

\* a.misbehaviour_sets, a.control_sets, a.trustworthiness_attribute_sets of
\* an Asset object a, whichever call handed it out
AssetSets(prop) ==
    \E self \in {o \in heap : o.key[1] = "system" /\ o.key[2] = "asset"} :
       \E urirefs \in Orders(Subjects(sysGraph, PREDICATE["type"],
                                      OBJECT[SystemEnumerations[prop].object]) \cap SysIds),
          located_at \in LocatedAtViews :
            LET e == SystemEnumerations[prop]
                sets == map_entities(Heap, "system", e.factory, e.cached, urirefs, 1)
                r == asset_sets_from(sets, self, sets.objs, located_at, 1, <<>>)
            IN /\ Cardinality(r.st.heap) <= MaxSetObjects
               /\ heap' = r.st.heap
               /\ cache' = r.st.cache
               /\ smOut' = [op |-> "asset_sets", name |-> prop, self |-> self,
                            located_at |-> located_at, raised |-> None, objs |-> r.objs]
               /\ UNCHANGED <<calls, sysGraph, domGraph, rvs, rvRes, ldOut>>

\* ------------------------------------------------------- registry lookups
\* the names that SystemModel and its entities look up in PREDICATE
SystemPredicateNames ==
    {"affected_by", "affects", "blocked_by", "blocks", "causes_misbehaviour",
     "comment", "created", "domain_version", "has_asserted_level", "has_control",
     "has_coverage_level", "has_entry_point", "has_frequency", "has_id",
     "has_impact_level", "has_inferred_level", "has_mandatory_control_set",
     "has_misbehaviour", "has_optional_control_set", "has_prior", "has_risk",
     "has_secondary_effect_condition", "has_twa", "is_calculating_risk",
     "is_current_risk", "is_external_cause", "is_future_risk",
     "is_initial_cause", "is_normal_op", "is_normal_op_effect", "is_proposed",
     "is_root_cause", "is_triggered", "is_valid", "is_validating",
     "is_work_in_progress", "label", "link_type", "links_from", "links_to",
     "located_at", "mitigated_by", "mitigates", "modified", "parent",
     "population", "risk_calculation_mode", "risks_valid", "source_cardinality",
     "target_cardinality", "threatens", "triggered_by", "triggers", "type"}

\* the names that DomainModel and its entities look up in PREDICATE
DomainPredicateNames ==
    {"affected_by", "affects", "applies_to", "blocks", "causes_misbehaviour",
     "comment", "displayed_at_node", "domain", "has_blocking_effect",
     "has_category", "has_control", "has_entry_point", "has_frequency",
     "has_inferred_link", "has_key_node", "has_level", "has_link",
     "has_mandatory_control_set", "has_matching_pattern", "has_max", "has_min",
     "has_misbehaviour", "has_necessary_node", "has_node", "has_optional_cs",
     "has_priority", "has_role", "has_root_pattern", "has_twa",
     "includes_node_in_uri", "independent_levels", "is_assertable",
     "is_assertible", "is_current_risk", "is_future_risk", "is_normal_op",
     "is_secondary_threat", "is_visible", "iterate", "label", "level_value",
     "link_type", "links_from", "links_to", "located_at", "max_iterations",
     "max_of", "meta_has_asset", "meta_located_at", "min_of",
     "performance_impact", "range", "requires_treatment_of", "sub_class_of",
     "threatens", "type", "unit_cost", "version_info"}

\* the names that SystemModel and its entities look up in OBJECT
SystemObjectNames ==
    {"cardinality_constraint", "control_set", "control_strategy",
     "misbehaviour_set", "threat", "trustworthiness_attribute_set"}

\* the names that DomainModel and its entities look up in OBJECT
DomainObjectNames ==
    {"asset", "construction_pattern", "control", "control_strategy",
     "cost_level", "impact_level", "matching_pattern", "misbehaviour",
     "performance_impact_level", "population_level", "relation", "risk_level",
     "root_pattern", "threat", "trustworthiness_attribute",
     "trustworthiness_attribute_set", "trustworthiness_level"}

\* the names looked up by the module in the registry
LookedUp(module, registry) ==
    IF module = "system_model"
    THEN (IF registry = "PREDICATE" THEN SystemPredicateNames ELSE SystemObjectNames)
    ELSE (IF registry = "PREDICATE" THEN DomainPredicateNames ELSE DomainObjectNames)

\* REGISTRY[name] on a dict: the value, or KeyError for a name that is no key
registry_lookup(registry, name) ==
    LET dict == IF registry = "PREDICATE" THEN PREDICATE ELSE OBJECT
    IN IF name \in DOMAIN dict THEN Returned(dict[name]) ELSE Raised("KeyError", name)

\* an operation of the module evaluates REGISTRY[name]
Lookup(module, registry, name) ==
    /\ name \in LookedUp(module, registry)
    /\ smOut' = [op |-> "lookup", model |-> module, registry |-> registry, name |-> name,
                 raised |-> registry_lookup(registry, name).raised,
                 arg |-> registry_lookup(registry, name).arg,
                 value |-> registry_lookup(registry, name).value]
    /\ UNCHANGED <<calls, sysGraph, domGraph, heap, cache, rvs, rvRes, ldOut>>

\* ========================================================== specifications
RVIdle == rvs = <<>> /\ rvRes = NoRes

\* the type triples that give each identifier s the types types[s]
TypeTriples(types) ==
    {t \in (DOMAIN types) \X {RDF_type} \X TypeObjects : t[3] \in types[t[1]]}

\* the domain graphs in which the classes C are declared asset classes
ClassTriples(C) == {<<d, RDF_type, "owl#Class">> : d \in C}

\* ---- RiskVector: construct two vectors, then compare them
RVInit ==
    /\ RVIdle
    /\ sysGraph = {} /\ domGraph = {}
    /\ heap = {} /\ cache = {} /\ smOut = NoOut /\ calls = NoCalls
    /\ ldOut = NoLoad

RVNext ==
    /\ NewRiskVector \/ GreaterThan \/ LessThan \/ Equals
    /\ UNCHANGED <<calls, sysGraph, domGraph, heap, cache, smOut, ldOut>>

SpecRV == RVInit /\ [][RVNext]_vars

\* ---- RiskVector: construct a vector, then read its overall level and its
\* ---- string rendering
LevelNext ==
    /\ (rvs = <<>> /\ NewRiskVector) \/ OverallLevel \/ StrOf
    /\ UNCHANGED <<calls, sysGraph, domGraph, heap, cache, smOut, ldOut>>

SpecLevel == RVInit /\ [][LevelNext]_vars

\* ---- get_entity on every system graph that gives each identifier at
\* ---- most MaxTypes types, against every declaration of the asset classes
DispatchInit ==
    /\ RVIdle
    /\ \E types \in [SysIds -> {T \in SUBSET TypeObjects : Cardinality(T) <= MaxTypes}] :
          sysGraph = TypeTriples(types)
    /\ \E C \in SUBSET DomIds : domGraph = ClassTriples(C)
    /\ heap = {} /\ cache = {} /\ smOut = NoOut /\ calls = NoCalls
    /\ ldOut = NoLoad

DispatchNext == \E uriref \in SysIds : GetEntity(uriref)

SpecDispatch == DispatchInit /\ [][DispatchNext]_vars

\* ---- the @cache factories of both models
FactoriesInit ==
    /\ RVIdle
    /\ sysGraph = {} /\ domGraph = {}
    /\ heap = {} /\ cache = {} /\ smOut = NoOut /\ calls = NoCalls
    /\ ldOut = NoLoad

FactoriesNext ==
    \E model \in Models :
        \E factory \in DOMAIN Factories(model), uriref \in Identifiers(model) :
            Factory(model, factory, uriref)

SpecFactories == FactoriesInit /\ [][FactoriesNext]_vars

\* ---- the factories, enumerations and accessors that hand out entities
EntitySysGraphs ==
    {TypeTriples([s \in SysIds |-> IF s = "system#A" THEN {"core#MisbehaviourSet"}
                                                      ELSE {"core#Threat"}]),
     TypeTriples([s \in SysIds |-> IF s = "system#A" THEN {"domain#Router"}
                                                      ELSE {"core#ControlSet"}])}

EntityDomGraph ==
    ClassTriples(DomIds) \cup
    {<<"domain#Router", "rdfs#subClassOf", "domain#Device">>,
     <<"domain#Device", RDF_type, "core#Threat">>}

EntitiesInit ==
    /\ RVIdle
    /\ sysGraph \in EntitySysGraphs
    /\ domGraph = EntityDomGraph
    /\ heap = {} /\ cache = {} /\ smOut = NoOut /\ calls = NoCalls
    /\ ldOut = NoLoad

EntitiesNext ==
    \/ \E model \in Models :
         \E factory \in DOMAIN Factories(model), uriref \in Identifiers(model) :
            Factory(model, factory, uriref)
    \/ \E model \in Models : \E prop \in DOMAIN Enumerations(model) : Enumerate(model, prop)
    \/ \E uriref \in DomIds : Parents(uriref)
    \/ \E uriref \in SysIds : GetEntity(uriref)

SpecEntities == EntitiesInit /\ [][EntitiesNext]_vars

\* ---- SystemModel construction from every pair of graph files
OntologyTriples(ontology, predicate) ==
    {{}, {<<ontology, RDF_type, OWL_Ontology>>}} \cup
    {{<<ontology, RDF_type, OWL_Ontology>>, <<ontology, predicate, v>>} : v \in Versions}

LoadInit ==
    /\ RVIdle
    /\ sysGraph \in OntologyTriples(SysOntology, "core#domainVersion")
    /\ domGraph \in OntologyTriples(DomOntology, "owl#versionInfo")
    /\ heap = {} /\ cache = {} /\ smOut = NoOut /\ calls = NoCalls
    /\ ldOut = NoLoad

LoadNext == SystemModelInit

SpecLoad == LoadInit /\ [][LoadNext]_vars

\* ---- the label of a domain asset class, for every identifier text and
\* ---- every set of label triples
LabelInit ==
    /\ RVIdle
    /\ sysGraph = {}
    /\ \E uriref \in UriTexts, labels \in SUBSET LabelTexts :
          domGraph = {<<uriref, RDF_type, "owl#Class">>} \cup
                     {<<uriref, "rdfs#label", l>> : l \in labels}
    /\ heap = {} /\ cache = {} /\ smOut = NoOut /\ calls = NoCalls
    /\ ldOut = NoLoad

LabelNext == \E uriref \in UriTexts : AssetLabel(uriref)

SpecLabel == LabelInit /\ [][LabelNext]_vars

\* ---- the descriptions of a threat, for every comment literal
ThreatInit ==
    /\ RVIdle
    /\ \E comments \in {{}} \cup {{c} : c \in CommentTexts} :
          \/ /\ sysGraph = {}
             /\ domGraph = {<<"domain#Router", RDF_type, "core#Threat">>} \cup
                            {<<"domain#Router", "rdfs#comment", c>> : c \in comments}
          \/ /\ sysGraph = {<<"system#A", RDF_type, "core#Threat">>} \cup
                            {<<"system#A", "rdfs#comment", c>> : c \in comments}
             /\ domGraph = {}
    /\ heap = {} /\ cache = {} /\ smOut = NoOut /\ calls = NoCalls
    /\ ldOut = NoLoad

ThreatNext ==
    \/ \E uriref \in Subjects(domGraph, RDF_type, "core#Threat") :
          DomainThreatDescriptions(uriref)
    \/ \E uriref \in Subjects(sysGraph, RDF_type, "core#Threat") :
          SystemThreatDescriptions(uriref)

SpecThreat == ThreatInit /\ [][ThreatNext]_vars

\* ---- is_asserted on a system model whose file holds up to MaxContexts
\* ---- named sub-graphs, any of which may hold the label of the asset
AssertedInit ==
    /\ RVIdle
    /\ \E contexts \in {C \in SUBSET ContextIds : Cardinality(C) <= MaxContexts} :
          /\ \E labelled \in SUBSET contexts :
                sysGraph = {<<"system#A", "rdfs#label", "Router 1", c>> : c \in labelled}
          /\ \E named_graphs \in Orders(contexts) :
                ldOut = [NoLoad EXCEPT !.named_graphs = named_graphs,
                                       !.self = partition_from(named_graphs, 1, NoLoad.self)]
    /\ domGraph = {}
    /\ heap = {} /\ cache = {} /\ smOut = NoOut /\ calls = NoCalls

AssertedNext == \E uriref \in SysIds : IsAsserted(uriref)

SpecAsserted == AssertedInit /\ [][AssertedNext]_vars

\* ---- risk aggregation over every system graph of misbehaviour sets with
\* ---- at most one risk level each, and every labelling and valuation of
\* ---- the risk levels
RiskInit ==
    /\ RVIdle
    /\ \E M \in SUBSET SysIds :
          \E risk \in [M -> RiskLevelIds \cup {None}] :
             sysGraph = {<<m, RDF_type, "core#MisbehaviourSet">> : m \in M} \cup
                        {<<m, "core#hasRisk", risk[m]>> : m \in {x \in M : risk[x] /= None}}
    /\ \E label \in [RiskLevelIds -> LevelNames \cup {None}],
          value \in [RiskLevelIds -> LevelValueTexts \cup {None}] :
             domGraph =
                {<<l, "rdfs#label", label[l]>> : l \in {x \in RiskLevelIds : label[x] /= None}} \cup
                {<<l, "core#levelValue", value[l]>> : l \in {x \in RiskLevelIds : value[x] /= None}}
    /\ heap = {} /\ cache = {} /\ smOut = NoOut /\ calls = NoCalls
    /\ ldOut = NoLoad

RiskNext ==
    \/ RiskVectorOf
    \/ \E risk_level_value \in 0..(MaxRank + 1) : FilterMisbehaviourSets(risk_level_value)

SpecRisk == RiskInit /\ [][RiskNext]_vars

\* ---- the assets of every system graph that gives each identifier at most
\* ---- MaxTypes types, against every declaration of the asset classes
AssetsInit ==
    /\ RVIdle
    /\ \E types \in [SysIds -> {T \in SUBSET TypeObjects : Cardinality(T) <= MaxTypes}] :
          sysGraph = TypeTriples(types)
    /\ \E C \in SUBSET DomIds : domGraph = ClassTriples(C)
    /\ heap = {} /\ cache = {} /\ smOut = NoOut /\ calls = NoCalls
    /\ ldOut = NoLoad

AssetsNext == SystemAssets

SpecAssets == AssetsInit /\ [][AssetsNext]_vars

\* ---- DomainModel construction from every domain model file
DomainLoadInit ==
    /\ RVIdle
    /\ sysGraph = {} /\ domGraph = {}
    /\ heap = {} /\ cache = {} /\ smOut = NoOut /\ calls = NoCalls
    /\ ldOut = NoLoad

DomainLoadNext == DomainModelInit

SpecDomainLoad == DomainLoadInit /\ [][DomainLoadNext]_vars

\* ---- the level values of every domain graph that gives each level at most
\* ---- two level value literals
LevelValueInit ==
    /\ RVIdle
    /\ sysGraph = {}
    /\ \E value \in [RiskLevelIds -> {L \in SUBSET LevelLiterals : Cardinality(L) <= 2}] :
          domGraph = {t \in RiskLevelIds \X {"core#levelValue"} \X LevelLiterals :
                         t[3] \in value[t[1]]}
    /\ heap = {} /\ cache = {} /\ smOut = NoOut /\ calls = NoCalls
    /\ ldOut = NoLoad

LevelValueNext == EntityLevelValue

SpecLevelValue == LevelValueInit /\ [][LevelValueNext]_vars

\* ---- the control strategies of a threat in every system graph of two
\* ---- strategies that block or mitigate it, with every flagging of their
\* ---- domain parents
StrategyFlags == {"core#isCurrentRisk", "core#isFutureRisk"}

StrategiesInit ==
    /\ RVIdle
    /\ \E B \in SUBSET (SysIds \X {"core#blocks", "core#mitigates"} \X ThreatIds),
          parent \in [SysIds -> DomIds] :
             sysGraph = B \cup {<<c, "core#parent", parent[c]>> : c \in SysIds}
    /\ \E F \in SUBSET (DomIds \X StrategyFlags \X {"true"}) : domGraph = F
    /\ heap = {} /\ cache = {} /\ smOut = NoOut /\ calls = NoCalls
    /\ ldOut = NoLoad

StrategiesNext == ControlStrategies

SpecStrategies == StrategiesInit /\ [][StrategiesNext]_vars

\* ---- the type of every asset of the system graphs of SpecAssets
AssetTypeNext == \E uriref \in SysIds : AssetType(uriref)

SpecAssetType == AssetsInit /\ [][AssetTypeNext]_vars

\* ---- two threads calling the asset factory of one system model, in every
\* ---- interleaving
ThreadsInit ==
    /\ RVIdle
    /\ \E types \in [SysIds -> {T \in SUBSET DomIds : Cardinality(T) <= 1}] :
          sysGraph = TypeTriples(types)
    /\ \E C \in SUBSET DomIds : domGraph = ClassTriples(C)
    /\ heap = {} /\ cache = {} /\ smOut = NoOut /\ calls = NoCalls
    /\ ldOut = NoLoad

ThreadsNext ==
    \E t \in Threads :
        \/ \E key \in ThreadKeys : EnterFactory(t, key)
        \/ LeaveFactory(t)

SpecThreads == ThreadsInit /\ [][ThreadsNext]_vars

\* ---- the sets located at the assets of every system graph that gives its
\* ---- identifiers at most one type, of asset or set, and locates them
\* ---- anywhere, the Asset
\* ---- objects coming from the factory, the enumeration or get_entity
SetTypeObjects ==
    {"domain#Router", "core#MisbehaviourSet", "core#ControlSet",
     "core#TrustworthinessAttributeSet"}

AssetSetsInit ==
    /\ RVIdle
    /\ \E types \in [SysIds -> {T \in SUBSET SetTypeObjects : Cardinality(T) <= 1}],
          located \in [SysIds -> SUBSET SysIds] :
             sysGraph = TypeTriples(types) \cup
                        {t \in SysIds \X {"core#locatedAt"} \X SysIds : t[3] \in located[t[1]]}
    /\ domGraph = ClassTriples({"domain#Router"})
    /\ heap = {} /\ cache = {} /\ smOut = NoOut /\ calls = NoCalls
    /\ ldOut = NoLoad

AssetSetsNext ==
    \/ \E uriref \in SysIds : Factory("system", "asset", uriref)
    \/ SystemAssets
    \/ \E uriref \in SysIds : GetEntity(uriref)
    \/ \E prop \in AssetSetProperties : AssetSets(prop)

SpecAssetSets == AssetSetsInit /\ [][AssetSetsNext]_vars

\* ---- every registry lookup that the two model modules make
RegistryInit ==
    /\ RVIdle
    /\ sysGraph = {} /\ domGraph = {}
    /\ heap = {} /\ cache = {} /\ smOut = NoOut /\ calls = NoCalls
    /\ ldOut = NoLoad

RegistryNext ==
    \E module \in {"system_model", "domain_model"}, registry \in {"PREDICATE", "OBJECT"} :
        \E name \in LookedUp(module, registry) : Lookup(module, registry, name)

SpecRegistry == RegistryInit /\ [][RegistryNext]_vars

\* ======================================================= RiskVector claims
Count(rv, k) == Get(rv.risk_dict, k, 0)

\* the level names of the two rank maps together, and the rank the merge
\* keeps for each (the right operand's where both have one)
MergedNames(a, b) == Keys(a.risk_levels) \cup Keys(b.risk_levels)

MergedRank(a, b, k) ==
    IF k \in Keys(b.risk_levels) THEN Get(b.risk_levels, k, 0) ELSE Get(a.risk_levels, k, 0)

Wins(a, b, operator, k) ==
    \/ operator = "gt" /\ Count(a, k) > Count(b, k)
    \/ operator = "lt" /\ Count(a, k) < Count(b, k)

\* C1: a RiskVector is constructed only from a counts mapping and a ranks
\* mapping with equal key sets; any other pair raises the key-mismatch
\* ValueError and no vector is returned.
C1_KeyMismatchRaises ==
    rvRes.op = "new" =>
        LET same == Keys(rvRes.counts.dict) = Keys(rvRes.ranks.dict)
        IN /\ (rvRes.raised = None) <=> same
           /\ ~same => rvRes.raised = "ValueError: Keys in risk_dict and risk_levels must match."

\* the levels of lowest merged rank among those where the counts differ
LowestDiffering(a, b) ==
    LET Diff == {k \in MergedNames(a, b) : Count(a, k) /= Count(b, k)}
    IN {k \in Diff : \A j \in Diff : MergedRank(a, b, k) <= MergedRank(a, b, j)}

Lexicographic(a, b, operator, value) ==
    LET low == LowestDiffering(a, b)
    IN /\ value => \E k \in low : Wins(a, b, operator, k)
       /\ (low /= {} /\ \A k \in low : Wins(a, b, operator, k)) => value

\* two vectors whose counts and ranks have the same keys, over one rank map
\* that gives every level its own rank
Comparable(a, b) ==
    /\ Keys(a.risk_dict) = Keys(a.risk_levels)
    /\ Keys(b.risk_dict) = Keys(b.risk_levels)
    /\ a.risk_levels = b.risk_levels
    /\ \A k, j \in Keys(a.risk_levels) :
          k /= j => Get(a.risk_levels, k, 0) /= Get(a.risk_levels, j, 0)

\* C6: a > b (a < b) is true exactly when a's count is the larger (the
\* smaller) at the lowest-rank level at which the two counts differ.
\* Stated for vectors that share one rank map with distinct ranks.
C6_LexicographicFromLeastSevere ==
    (rvRes.op \in {"gt", "lt"} /\ Comparable(rvs[1], rvs[2])) =>
        /\ Lexicographic(rvs[1], rvs[2], rvRes.op, rvRes.ab.value)
        /\ Lexicographic(rvs[2], rvs[1], rvRes.op, rvRes.ba.value)

ScanResult(a, b, operator, r) ==
    IF r.value
    THEN /\ r.level \in MergedNames(a, b)
         /\ Wins(a, b, operator, r.level)
         /\ \A k \in MergedNames(a, b) :
               Wins(a, b, operator, k) => MergedRank(a, b, k) >= MergedRank(a, b, r.level)
    ELSE /\ r.level = None
         /\ \A k \in MergedNames(a, b) : ~Wins(a, b, operator, k)

\* C7: greater_than (less_than) returns true at the first level, in
\* ascending order of merged rank, where self's count exceeds (is below)
\* other's, a missing count being 0, and false when no level is such.
C7_ScanAscendingFirstMatch ==
    rvRes.op \in {"gt", "lt"} =>
        /\ ScanResult(rvs[1], rvs[2], rvRes.op, rvRes.ab)
        /\ ScanResult(rvs[2], rvs[1], rvRes.op, rvRes.ba)

\* a > b returned at the more severe of two levels, the less severe one
\* having been scanned and passed over
C7_Witness ==
    /\ rvRes.op = "gt"
    /\ rvRes.ab.value
    /\ \E k \in MergedNames(rvs[1], rvs[2]) :
          MergedRank(rvs[1], rvs[2], k) < MergedRank(rvs[1], rvs[2], rvRes.ab.level)

\* C8: the strict order is asymmetric: a > b and b > a are never both
\* true, nor are a < b and b < a.  Stated for vectors that share one rank
\* map with distinct ranks.
C8_Asymmetric ==
    (rvRes.op \in {"gt", "lt"} /\ Comparable(rvs[1], rvs[2])) =>
        ~(rvRes.ab.value /\ rvRes.ba.value)

\* C9: a < b is true if and only if b > a is true.
C9_LessThanIsConverse ==
    rvRes.op = "lt" =>
        /\ rvRes.ab.value <=> gt(rvs[2], rvs[1]).value
        /\ rvRes.ba.value <=> gt(rvs[1], rvs[2]).value

\* a < b answered true and b < a answered false
C9_Witness ==
    /\ rvRes.op = "lt"
    /\ rvRes.ab.value
    /\ ~rvRes.ba.value

\* C10: when a == b is true, none of a > b, b > a, a < b, b < a is true.
C10_EqualNeitherGreaterNorLess ==
    (rvRes.op = "eq" /\ rvRes.ab) =>
        /\ ~gt(rvs[1], rvs[2]).value /\ ~gt(rvs[2], rvs[1]).value
        /\ ~lt(rvs[1], rvs[2]).value /\ ~lt(rvs[2], rvs[1]).value

\* two equal vectors with a non-zero count, built from differently ordered
\* mappings
C10_Witness ==
    /\ rvRes.op = "eq"
    /\ rvRes.ab
    /\ rvs[1].risk_levels /= rvs[2].risk_levels
    /\ \E k \in Keys(rvs[1].risk_dict) : Count(rvs[1], k) > 0

\* C11: overall_level is a level of the ranks map whose rank no other level
\* of the map exceeds, whatever its count, and None when the ranks map is
\* empty.
C11_OverallLevelHighestRank ==
    rvRes.op = "overall_level" =>
        LET rv == rvs[rvRes.self]
        IN IF Keys(rv.risk_levels) = {}
           THEN rvRes.value = None
           ELSE /\ rvRes.value \in Keys(rv.risk_levels)
                /\ \A k \in Keys(rv.risk_levels) :
                      Get(rv.risk_levels, k, 0) <= Get(rv.risk_levels, rvRes.value, 0)

\* the top level has count zero while a lower level has a count
C11_Witness ==
    /\ rvRes.op = "overall_level"
    /\ rvRes.value /= None
    /\ LET rv == rvs[rvRes.self]
       IN /\ Count(rv, rvRes.value) = 0
          /\ \E k \in Keys(rv.risk_levels) :
                /\ Get(rv.risk_levels, k, 0) < Get(rv.risk_levels, rvRes.value, 0)
                /\ Count(rv, k) > 0

\* ============================================ SystemModel / DomainModel claims
\* the literal a graph records under predicate, None when it records none
Recorded(g, predicate) ==
    IF \E t \in g : t[2] = predicate
    THEN (CHOOSE t \in g : t[2] = predicate)[3]
    ELSE None

\* C2: constructing a SystemModel whose graph records a domain_version
\* other than the attached DomainModel's version_info fails with the
\* domain-version-mismatch error, and neither then nor without a domain
\* model is a SystemModel returned.
C2_VersionGate ==
    ldOut.op = "SystemModel" =>
        LET mismatch == /\ ldOut.self.domain_model
                        /\ Recorded(sysGraph, "core#domainVersion") \in Versions
                        /\ Recorded(domGraph, "owl#versionInfo") \in Versions
                        /\ Recorded(sysGraph, "core#domainVersion")
                             /= Recorded(domGraph, "owl#versionInfo")
        IN /\ mismatch =>
                /\ ldOut.raised = "ValueError"
                /\ ldOut.arg = "Domain model version mismatch!"
           /\ (mismatch \/ ~ldOut.self.domain_model) => ~ldOut.returned

\* the type tests get_entity is to make, in order, and the class of each
DispatchOrder ==
    <<[type |-> "core#MisbehaviourSet", class |-> "MisbehaviourSet"],
      [type |-> "core#Threat", class |-> "Threat"],
      [type |-> "core#CardinalityConstraint", class |-> "Relation"],
      [type |-> "core#ControlStrategy", class |-> "ControlStrategy"],
      [type |-> "core#TrustworthinessAttributeSet", class |-> "TrustworthinessAttributeSet"],
      [type |-> "core#ControlSet", class |-> "ControlSet"]>>

TypesOf(uriref) == Objects(sysGraph, uriref, RDF_type)

AssetClasses == Subjects(domGraph, RDF_type, "owl#Class")

ReturnsA(class) ==
    /\ smOut.raised = None
    /\ Len(smOut.objs) = 1
    /\ smOut.objs[1].key[3] = smOut.uriref
    /\ ClassOf(smOut.objs[1]) = class

\* C3: get_entity returns an entity of the class of the first type test, in
\* the order MisbehaviourSet, Threat, CardinalityConstraint, ControlStrategy,
\* TrustworthinessAttributeSet, ControlSet, that the identifier passes; an
\* Asset when it passes none and its declared type is a domain asset class;
\* and fails with the unknown-entity error otherwise.
C3_DispatchOrder ==
    (smOut.op = "get_entity" /\ TypesOf(smOut.uriref) /= {}) =>
        LET T == TypesOf(smOut.uriref)
            matching == {i \in DOMAIN DispatchOrder : DispatchOrder[i].type \in T}
        IN IF matching /= {}
           THEN ReturnsA(DispatchOrder[CHOOSE i \in matching : \A j \in matching : i <= j].class)
           ELSE /\ (T /= {} /\ T \subseteq AssetClasses) => ReturnsA("Asset")
                /\ (T \cap AssetClasses = {}) =>
                      (smOut.raised = "KeyError" /\ smOut.arg = smOut.uriref)

\* C4: a factory called with an identifier never fails and returns the
\* object its first call with that identifier constructed: a cached object
\* is never evicted or replaced, and every call returns the cached object
\* of its key.
C4_FactoryReturnsCached ==
    [][/\ cache \subseteq cache'
       /\ smOut'.op = "factory" =>
             /\ smOut'.raised = None
             /\ Len(smOut'.objs) = 1
             /\ smOut'.objs[1].key = <<smOut'.model, smOut'.name, smOut'.uriref>>
             /\ ObjectsOf(cache', smOut'.objs[1].key) = {smOut'.objs[1]}]_vars

\* a factory answered from its cache, after a call for another key
C4_Witness ==
    /\ smOut.op = "factory"
    /\ smOut.constructed = 0
    /\ Cardinality(cache) = 2

\* C5: an identifier has at most one entity object per class and model:
\* whatever an enumeration, a multi-valued accessor or get_entity yields
\* for it is the object the cached factory holds for it.
C5_OneObjectPerIdentifier ==
    /\ \A o1, o2 \in heap : o1.key = o2.key => o1 = o2
    /\ \A i \in DOMAIN smOut.objs : \A c \in cache :
          c.key = smOut.objs[i].key => c = smOut.objs[i]

\* ============================================================ label claims
\* the text after the last "/" or "#" of an identifier
RECURSIVE TrailingSegment(_)
TrailingSegment(text) ==
    IF text = <<>> \/ text[Len(text)] \in {"/", "#"} THEN <<>>
    ELSE Append(TrailingSegment(SubSeq(text, 1, Len(text) - 1)), text[Len(text)])

\* C12: the label of a domain Asset without a label triple is the trailing
\* segment of its identifier (NetworkRouter for .../domain#NetworkRouter);
\* with a label triple it is that label.
C12_LabelFallback ==
    smOut.op = "label" =>
        LET labels == Objects(domGraph, smOut.uriref, "rdfs#label")
        IN /\ ~smOut.label.none
           /\ IF labels = {}
              THEN smOut.label.text = TrailingSegment(smOut.uriref)
              ELSE smOut.label.text \in labels

\* ===================================================== description claims
\* the comment literal of the threat the descriptions were read from
CommentOf ==
    LET g == IF smOut.model = "system" THEN sysGraph ELSE domGraph
    IN Objects(g, smOut.uriref, "rdfs#comment")

\* the positions of the unquoted colons of text: those with an even number
\* of double quotes to their left
UnquotedColons(text) ==
    {i \in DOMAIN text :
        /\ text[i] = Colon
        /\ Cardinality({j \in 1..(i - 1) : text[j] = Quote}) % 2 = 0}

FirstUnquotedColon(text) ==
    CHOOSE i \in UnquotedColons(text) : \A j \in UnquotedColons(text) : i <= j

\* a comment with an unquoted colon and text after it
Described(text) ==
    /\ UnquotedColons(text) /= {}
    /\ strip(SubSeq(text, FirstUnquotedColon(text) + 1, Len(text))) /= <<>>

\* C13: the short description of a threat is the comment text before the
\* first unquoted colon, and the long description the trimmed text after
\* that colon with its first letter in upper case.
C13_SplitAtFirstUnquotedColon ==
    smOut.op = "descriptions" =>
        \A text \in CommentOf :
            Described(text) =>
                LET i == FirstUnquotedColon(text)
                    rest == strip(SubSeq(text, i + 1, Len(text)))
                IN /\ smOut.short.raised = None
                   /\ strip(smOut.short.text) = strip(SubSeq(text, 1, i - 1))
                   /\ smOut.long.raised = None
                   /\ smOut.long.text = <<upper(rest[1])>> \o Tail(rest)

\* n blanks
Blanks(n) == [i \in 1..n |-> Blank]

SameButFirstCase(x, y) ==
    /\ Len(x) = Len(y)
    /\ x /= <<>> => upper(x[1]) = upper(y[1]) /\ Tail(x) = Tail(y)

InfGraphs == {ldOut.named_graphs[i] : i \in
                {k \in DOMAIN ldOut.named_graphs : EndsWith(ldOut.named_graphs[k], "inf")}}

\* C15: for a system model file with its /inf named sub-graph, is_asserted
\* of an asset is TRUE exactly when that sub-graph holds no label triple of
\* the asset, wherever else the label is recorded.
C15_AssertedIffNoInferredLabel ==
    (smOut.op = "is_asserted" /\ Cardinality(InfGraphs) = 1) =>
        /\ smOut.raised = None
        /\ smOut.value <=>
              \A inf \in InfGraphs :
                 <<smOut.uriref, "rdfs#label", "Router 1", inf>> \notin sysGraph

\* the label is recorded in the asserted sub-graph and in /inf: not asserted
C15_Witness ==
    /\ smOut.op = "is_asserted"
    /\ Cardinality(InfGraphs) = 1
    /\ smOut.raised = None /\ ~smOut.value
    /\ \E q \in sysGraph : q[1] = smOut.uriref /\ q[4] \notin InfGraphs

\* ================================================= risk aggregation claims
MisbehaviourSets == Subjects(sysGraph, RDF_type, "core#MisbehaviourSet")

\* the risk levels of a misbehaviour set, their labels and level values, as
\* the graphs record them
RiskLevelsOf(m) == Objects(sysGraph, m, "core#hasRisk")
RiskLabelsOf(m) == UNION {Objects(domGraph, r, "rdfs#label") : r \in RiskLevelsOf(m)}
RiskValuesOf(m) == UNION {Objects(domGraph, r, "core#levelValue") : r \in RiskLevelsOf(m)}

\* the numbers a misbehaviour set has for risk level value
RanksOf(m) == {n \in 0..(Len(Numerals) - 1) : Numerals[n + 1] \in RiskValuesOf(m)}

\* the first misbehaviour set labelled k in an enumeration order
FirstLabelled(order, k) ==
    order[CHOOSE i \in DOMAIN order :
            /\ k \in RiskLabelsOf(order[i])
            /\ \A j \in 1..(i - 1) : k \notin RiskLabelsOf(order[j])]

\* C16: in the vector risk_vector() returns, the count of every risk level
\* label is the number of misbehaviour sets with that label, its rank is
\* the risk level value of the first such misbehaviour set in enumeration
\* order, and the counts and the ranks have the same keys.
C16_CountsAndFirstSeenRanks ==
    (smOut.op = "risk_vector" /\ smOut.raised = None) =>
        /\ "none" \notin DOMAIN smOut.value
        /\ Keys(smOut.value.risk_dict) = Keys(smOut.value.risk_levels)
        /\ \A k \in LevelNames :
              LET labelled == {m \in MisbehaviourSets : k \in RiskLabelsOf(m)}
              IN /\ Get(smOut.value.risk_dict, k, 0) = Cardinality(labelled)
                 /\ k \in Keys(smOut.value.risk_dict) <=> labelled /= {}
                 /\ labelled /= {} =>
                       Get(smOut.value.risk_levels, k, None) \in
                           RanksOf(FirstLabelled(smOut.misbehaviour_sets, k))

\* two misbehaviour sets share a label through risk levels of different
\* level value
C16_Witness ==
    /\ smOut.op = "risk_vector" /\ smOut.raised = None
    /\ \E k \in LevelNames :
          /\ Get(smOut.value.risk_dict, k, 0) = 2
          /\ \E m1, m2 \in MisbehaviourSets :
                RanksOf(m1) /= {} /\ RanksOf(m2) /= {} /\ RanksOf(m1) /= RanksOf(m2)

\* a misbehaviour set without a risk level, or whose risk level has no
\* level value or one that is no number
InvalidRiskLevel(m) == RanksOf(m) = {}

\* C17: when some misbehaviour set has an invalid risk level, risk_vector()
\* returns None and raises nothing.
C17_InvalidLevelGivesNone ==
    (smOut.op = "risk_vector" /\ \E m \in MisbehaviourSets : InvalidRiskLevel(m)) =>
        /\ smOut.raised = None
        /\ "none" \in DOMAIN smOut.value

\* C18: filter_misbehaviour_sets(threshold) returns the misbehaviour sets
\* whose risk level value is at least the threshold, all of them, each
\* once, in an order along which the risk level value never increases.
C18_FilterAtLeastThresholdDescending ==
    (smOut.op = "filter" /\ smOut.raised = None) =>
        LET ms_sorted == smOut.value
            atLeast == {m \in MisbehaviourSets :
                          \E n \in RanksOf(m) : n >= smOut.risk_level_value}
        IN /\ {ms_sorted[i] : i \in DOMAIN ms_sorted} = atLeast
           /\ Len(ms_sorted) = Cardinality(atLeast)
           /\ \A i, j \in DOMAIN ms_sorted :
                 i < j => \A a \in RanksOf(ms_sorted[i]), b \in RanksOf(ms_sorted[j]) : a >= b

\* two misbehaviour sets pass the threshold and the one enumerated second
\* has the higher risk level value
C18_Witness ==
    /\ smOut.op = "filter" /\ smOut.raised = None
    /\ Len(smOut.value) = 2
    /\ smOut.value[1] = smOut.misbehaviour_sets[2]
    /\ RanksOf(smOut.value[1]) /= RanksOf(smOut.value[2])

\* =========================================================== assets claims
\* C19: SystemModel.assets holds an Asset for an identifier exactly when the
\* system graph gives the identifier a type that DomainModel.assets
\* enumerates, and holds nothing but system Assets.
C19_AssetsAreInstancesOfAssetClasses ==
    smOut.op = "assets" =>
        /\ \A i \in SysIds :
              (\E n \in DOMAIN smOut.objs : smOut.objs[n].key[3] = i) <=>
              (\E c \in AssetClasses : <<i, RDF_type, c>> \in sysGraph)
        /\ \A n \in DOMAIN smOut.objs :
              /\ smOut.objs[n].key[1] = "system"
              /\ ClassOf(smOut.objs[n]) = "Asset"

\* one identifier is an asset and the other, typed otherwise, is left out
C19_Witness ==
    /\ smOut.op = "assets"
    /\ smOut.objs /= <<>>
    /\ \E i \in SysIds :
          /\ Objects(sysGraph, i, RDF_type) /= {}
          /\ \A n \in DOMAIN smOut.objs : smOut.objs[n].key[3] /= i

\* ============================================== DomainModel loading claims
\* C20: loading a DomainModel from a source that holds triples but no
\* ontology root (no subject typed owl:Ontology) raises the malformed-graph
\* error and returns no DomainModel.
C20_NoOntologyRootRaises ==
    (/\ ldOut.op = "DomainModel"
     /\ domGraph /= {}
     /\ Subjects(domGraph, RDF_type, OWL_Ontology) = {}) =>
        /\ ldOut.raised /= None
        /\ ~ldOut.returned

\* ===================================================== level value claims
\* the level uriref carries one level value, and it is numeric
NumericLevel(uriref) ==
    \E x \in LevelLiterals :
        /\ Objects(domGraph, uriref, PREDICATE["level_value"]) = {x}
        /\ int(x).raised = None

\* C21: for every level identifier that carries a numeric level value, the
\* value 0 included, the level entity's level_value is an integer equal to
\* DomainModel.level_value(identifier).
C21_EntityLevelValueIsModelLevelValue ==
    (smOut.op = "level_value" /\ NumericLevel(smOut.uriref)) =>
        /\ smOut.model.raised = None
        /\ ~smOut.entity.none
        /\ smOut.entity.int = smOut.model.value

\* ========================================================= rendering claims
\* the rendering of the levels in the order given, entries separated by sep
RECURSIVE Rendering(_, _, _)
Rendering(rv, order, sep) ==
    IF order = <<>> THEN <<>>
    ELSE IF Len(order) = 1 THEN <<order[1], ": ", Numerals[Count(rv, order[1]) + 1]>>
    ELSE <<order[1], ": ", Numerals[Count(rv, order[1]) + 1], sep>>
            \o Rendering(rv, Tail(order), sep)

\* every level once, no level before one of higher rank
DescendingOrders(rv) ==
    {order \in Orders(Keys(rv.risk_levels)) :
        \A i, j \in DOMAIN order :
            i < j => Get(rv.risk_levels, order[i], 0) >= Get(rv.risk_levels, order[j], 0)}

\* C22: the string rendering of a RiskVector lists every level once, in
\* descending rank order, each as "<level name>: <count>", the entries
\* separated by ", ".  Stated for vectors whose counts and ranks have the
\* same levels.
C22_StrCommaSeparatedDescending ==
    (rvRes.op = "str" /\ Keys(rvs[rvRes.self].risk_dict) = Keys(rvs[rvRes.self].risk_levels)) =>
        /\ rvRes.raised = None
        /\ \E order \in DescendingOrders(rvs[rvRes.self]) :
              rvRes.text = Rendering(rvs[rvRes.self], order, ", ")

\* ============================================== control strategy claims
\* the strategy csg is flagged by the predicate flag, through its domain parent
Flagged(csg, flag) ==
    \E d \in Objects(sysGraph, csg, PREDICATE["parent"]) : <<d, flag, "true">> \in domGraph

\* the future-risk path: blocks or mitigates the threat, flagged future-risk
FutureRiskPath(threat) ==
    {c \in Subjects(sysGraph, PREDICATE["blocks"], threat)
            \cup Subjects(sysGraph, PREDICATE["mitigates"], threat) :
        Flagged(c, PREDICATE["is_future_risk"])}

\* the current-risk path: blocks the threat, flagged current-risk (the
\* graphs hold no contingency plan, so none is inactive)
CurrentRiskPath(threat) ==
    {c \in Subjects(sysGraph, PREDICATE["blocks"], threat) :
        Flagged(c, PREDICATE["is_current_risk"])}

\* C23: control_strategies with future_risk unset evaluates both branches:
\* the result contains the strategies of the future-risk path and also
\* those of the current-risk path.
C23_BothBranchesEvaluated ==
    smOut.op = "control_strategies" =>
        /\ smOut.raised = None
        /\ \A c \in FutureRiskPath(smOut.uriref) \cup CurrentRiskPath(smOut.uriref) :
              \E i \in DOMAIN smOut.csgs : smOut.csgs[i].key[3] = c

\* ============================================================ Asset.type claims
\* C24: Asset.type returns the domain-model Asset entity whose identifier is
\* the object of the system asset's type triple; for a system asset without
\* a declared type it fails and returns no entity.
C24_TypeIsDomainAssetOrFailure ==
    smOut.op = "asset_type" =>
        IF Objects(sysGraph, smOut.uriref, PREDICATE["type"]) = {}
        THEN smOut.raised /= None /\ smOut.objs = <<>>
        ELSE /\ smOut.raised = None
             /\ Len(smOut.objs) = 1
             /\ smOut.objs[1].key[1] = "domain"
             /\ ClassOf(smOut.objs[1]) = "Asset"
             /\ smOut.objs[1].key[3] \in Objects(sysGraph, smOut.uriref, PREDICATE["type"])

\* ========================================================= concurrency claims
\* C25: two threads that concurrently make the first access to one factory
\* with one identifier receive the same entity object, in every
\* interleaving.
C25_ConcurrentFirstAccessSameObject ==
    \A t1, t2 \in Threads :
        (/\ calls[t1].pc = "returned"
         /\ calls[t2].pc = "returned"
         /\ calls[t1].key = calls[t2].key) => calls[t1].objs = calls[t2].objs

\* ============================================================ loading claims
\* the slot a named sub-graph falls in, by the suffix of its identifier
SlotOf(identifier) ==
    IF identifier[Len(identifier)] = "inf" /\ Len(identifier) >= 2 THEN "inferred_graph"
    ELSE IF identifier[Len(identifier)] = "ui" /\ Len(identifier) >= 2 THEN "ui_graph"
    ELSE "graph"

\* the places in the enumeration of the sub-graphs that fall in slot
PlacesOf(slot) == {i \in DOMAIN ldOut.named_graphs : SlotOf(ldOut.named_graphs[i]) = slot}

\* C26: loading assigns each named sub-graph by identifier suffix; a slot
\* holds the last sub-graph enumerated that falls in it, and a slot no
\* sub-graph falls in is never assigned.
C26_SlotHoldsLastOfItsSuffix ==
    ldOut.op = "SystemModel" =>
        \A slot \in {"graph", "inferred_graph", "ui_graph"} :
            IF PlacesOf(slot) = {}
            THEN ldOut.self[slot] = Unset
            ELSE \E i \in PlacesOf(slot) :
                    /\ \A j \in PlacesOf(slot) : j <= i
                    /\ ldOut.self[slot] = ldOut.named_graphs[i]

\* a load with two sub-graphs in one slot and none in another
C26_Witness ==
    /\ ldOut.op = "SystemModel"
    /\ Cardinality(PlacesOf("graph")) >= 2
    /\ PlacesOf("ui_graph") = {}
    /\ ldOut.self.ui_graph = Unset
    /\ ldOut.self.graph = ldOut.named_graphs[Len(ldOut.named_graphs)]

\* ===================================================== classification claims
\* the identifiers that SystemModel.assets enumerates: those with a type
\* triple naming an asset class of the domain model
EnumeratedAssets ==
    {u \in SysIds : \E c \in Subjects(domGraph, PREDICATE["type"], OBJECT["asset"]) :
                        <<u, PREDICATE["type"], c>> \in sysGraph}

\* C27: get_entity classifies every identifier that assets enumerates as an
\* Asset: it never fails for it and never assigns it another kind, whatever
\* other type triples the identifier carries.
C27_EnumeratedAssetsClassifiedAsAsset ==
    (smOut.op = "get_entity" /\ smOut.uriref \in EnumeratedAssets) =>
        /\ smOut.raised = None
        /\ smOut.name = "asset"

\* ============================================================ asset sets claims
\* the identifiers of the sets that the accessor prop enumerates
SetsOfKind(prop) ==
    Subjects(sysGraph, PREDICATE["type"], OBJECT[SystemEnumerations[prop].object]) \cap SysIds

\* the identifiers of the objects returned
Returned28 == {smOut.objs[i].key[3] : i \in DOMAIN smOut.objs}

C29_ScanReturnsPrefix ==
    (smOut.op = "descriptions" /\ smOut.model = "system") =>
        \A comment \in Objects(sysGraph, smOut.uriref, PREDICATE["comment"]) :
            /\ smOut.short.raised = None
            /\ Len(smOut.short.text) <= Len(comment)
            /\ smOut.short.text = SubSeq(comment, 1, Len(smOut.short.text))

\* ============================================================ registry claims
\* C30: every semantic name that DomainModel, SystemModel or their entities
\* look up in the PREDICATE or OBJECT registry is a key of that registry, so
\* no lookup fails with an unknown name.
C30_RegistryComplete ==
    smOut.op = "lookup" => smOut.raised = None

====
